---- MODULE Spec2Model ----
(***************************************************************************)
(* Order lifecycle engine of the Pixora storefront (src/src/lib/orders.js). *)
(* The persisted order list (localStorage key "pixoraOrders") is the state; *)
(* createOrder, confirmOrder, updateShippingStatus and cancelOrder are the  *)
(* operations.  Every operation reloads the whole list, rewrites one record *)
(* and saves the whole list back through normalizeOrder and sortByNewest.   *)
(***************************************************************************)
EXTENDS Integers, Sequences, FiniteSets, TLC

VARIABLES
    storage,      \* the order list persisted under ORDER_STORAGE_KEY
    storedAs,     \* what the item under that key is: "missing", "unparsable"
                  \* text, "notArray" (JSON that is no array) or an "array"
    clock,        \* the wall clock read by toIsoNow()
    nextId,       \* the next value createId() hands out (ids are never reused)
    last,         \* the most recent lifecycle call: its name and arguments
    prevStorage,  \* the persisted list as it was when that call started
    result,       \* what that call returned: Null or <<order>>
    eventLimit,   \* how many timeline entries the exploration lets the list hold
    writers,      \* two tabs in the middle of a lifecycle call: the list each
                  \* has read with loadOrders() and not yet saved
    products,     \* the catalog held by ProductsProvider (useState(loadProducts))
    cartItems,    \* the cart lines (items) held by CartProvider (useState([]))
    placing,      \* the handlePlaceOrder calls waiting for resolveAuthState,
                  \* each with the render it closed over
    shopLast      \* the most recent storefront handler, its arguments and outcome

\* the storefront state around the order engine
shopVars == <<products, cartItems, placing, shopLast>>

vars == <<storage, storedAs, clock, nextId, last, prevStorage, result, eventLimit,
          writers, products, cartItems, placing, shopLast>>

----------------------------------------------------------------------------
(* Bounds of the exploration *)

\* at most this many timeline entries are written, over all orders; every
\* order holds at least one, so this bounds the number of orders as well
MaxEvents == 3

\* at most this many orders are placed through the storefront
MaxPlaced == 1

\* the timeline entries of the runs that cancel an order more than once
MaxRevivalEvents == 5

\* at most this many orders are created in the intake runs
MaxIntake == 2

\* the catalog calls of the inventory runs leave no stock above this
MaxStock == 31

----------------------------------------------------------------------------
(* Values *)

\* JavaScript null for a timestamp or an id; clock and ids start at 1
Null == 0

\* JavaScript undefined / null for a string-valued field or argument
Undefined == "<undefined>"

\* a call that returns null returns NoOrder, one that returns an order o returns <<o>>
NoOrder == <<>>

ORDER_STATUSES == [PENDING |-> "pending", CONFIRMED |-> "confirmed", CANCELLED |-> "cancelled"]

SHIPPING_STATUSES ==
    [AWAITING_CONFIRMATION |-> "awaiting_confirmation",
     PROCESSING |-> "processing",
     SHIPPED |-> "shipped",
     DELIVERED |-> "delivered",
     CANCELLED |-> "cancelled"]

SHIPPING_STATUS_OPTIONS ==
    <<SHIPPING_STATUSES.AWAITING_CONFIRMATION,
      SHIPPING_STATUSES.PROCESSING,
      SHIPPING_STATUSES.SHIPPED,
      SHIPPING_STATUSES.DELIVERED,
      SHIPPING_STATUSES.CANCELLED>>

SHIPPING_STATUS_LABELS ==
    [s \in {SHIPPING_STATUS_OPTIONS[i] : i \in 1..Len(SHIPPING_STATUS_OPTIONS)} |->
        CASE s = SHIPPING_STATUSES.AWAITING_CONFIRMATION -> "Awaiting confirmation"
          [] s = SHIPPING_STATUSES.PROCESSING -> "Processing"
          [] s = SHIPPING_STATUSES.SHIPPED -> "Shipped"
          [] s = SHIPPING_STATUSES.DELIVERED -> "Delivered"
          [] s = SHIPPING_STATUSES.CANCELLED -> "Cancelled"]

Range(s) == {s[i] : i \in 1..Len(s)}

Max(a, b) == IF a >= b THEN a ELSE b

----------------------------------------------------------------------------
(* Strings that the code trims and lower-cases are sequences of characters *)

IsSpace(c) == c = " "

RECURSIVE trimStart(_)
trimStart(s) ==
    IF s = <<>> THEN <<>>
    ELSE IF IsSpace(Head(s)) THEN trimStart(Tail(s)) ELSE s

RECURSIVE trimEnd(_)
trimEnd(s) ==
    IF s = <<>> THEN <<>>
    ELSE IF IsSpace(s[Len(s)]) THEN trimEnd(SubSeq(s, 1, Len(s) - 1)) ELSE s

trim(s) == trimEnd(trimStart(s))

toLowerCaseChar(c) ==
    CASE c = "A" -> "a"
      [] c = "B" -> "b"
      [] OTHER -> c

toLowerCase(s) == [i \in 1..Len(s) |-> toLowerCaseChar(s[i])]

\* String(email ?? "").trim().toLowerCase(); a missing email is the empty sequence
normalizeEmail(email) == toLowerCase(trim(email))

\* new Date().toISOString()
toIsoNow == clock

\* crypto.randomUUID(): an id no earlier call has handed out
createId == nextId

----------------------------------------------------------------------------
(* JavaScript numbers.  A stock value, a stock draft, a stock delta, and a  *)
(* price, quantity or subtotal of an order is a JavaScript number: floor +  *)
(* 1/2 when half, floor otherwise, or a value that is not finite (NaN, an   *)
(* infinity, undefined, a text that is no number).  The quantities of the   *)
(* cart and the stocks the pages read are plain integers.                   *)

Num(n) == [floor |-> n, half |-> FALSE, finite |-> TRUE]

Half(n) == [floor |-> n, half |-> TRUE, finite |-> TRUE]

NotFinite == [floor |-> 0, half |-> FALSE, finite |-> FALSE]

isFinite(x) == x.finite

MathFloor(x) == x.floor

Min(a, b) == IF a <= b THEN a ELSE b

\* x + y; anything added to a value that is not finite is not finite
Plus(x, y) ==
    IF ~isFinite(x) \/ ~isFinite(y) THEN NotFinite
    ELSE [floor |-> x.floor + y.floor + (IF x.half /\ y.half THEN 1 ELSE 0),
          half |-> x.half # y.half,
          finite |-> TRUE]

----------------------------------------------------------------------------
(* Numbers of the order engine *)

\* Number(value), and the fallback when that is not finite
safeNumber(value, fallback) == IF ~isFinite(value) THEN fallback ELSE value

\* a slip: Math.floor is missing
safeIntegerUnfloored(value, fallback) ==
    IF safeNumber(value, fallback).floor < 0 THEN Num(0) ELSE safeNumber(value, fallback)

\* Math.max(0, Math.floor(safeNumber(value, fallback)))
safeInteger(value, fallback) == Num(Max(0, MathFloor(safeNumber(value, fallback))))

----------------------------------------------------------------------------
(* Normalization *)

\* ORDER_STATUSES[status?.toUpperCase?.()] ?? status ?? PENDING
normalizeStatus(status) ==
    CASE status \in {"pending", "PENDING", "Pending"} -> ORDER_STATUSES.PENDING
      [] status \in {"confirmed", "CONFIRMED", "Confirmed"} -> ORDER_STATUSES.CONFIRMED
      [] status \in {"cancelled", "CANCELLED", "Cancelled"} -> ORDER_STATUSES.CANCELLED
      [] status = Undefined -> ORDER_STATUSES.PENDING
      [] OTHER -> status

\* a slip: a status the select does not offer falls back to Processing
normalizeShippingStatusProcessing(shippingStatus) ==
    IF shippingStatus \in {Undefined, ""} THEN SHIPPING_STATUSES.AWAITING_CONFIRMATION
    ELSE IF shippingStatus \in Range(SHIPPING_STATUS_OPTIONS) THEN shippingStatus
    ELSE SHIPPING_STATUSES.PROCESSING

normalizeShippingStatus(shippingStatus) ==
    IF shippingStatus \in {Undefined, ""} THEN SHIPPING_STATUSES.AWAITING_CONFIRMATION
    ELSE IF shippingStatus \in Range(SHIPPING_STATUS_OPTIONS) THEN shippingStatus
    ELSE SHIPPING_STATUSES.AWAITING_CONFIRMATION

\* the message texts of the model carry no surrounding white space, so trim()
\* only decides between an empty text and a kept one
normalizeTimelineEntry(entry) ==
    [id |-> IF entry.id = Null THEN createId ELSE entry.id,
     at |-> IF entry.at = Null THEN toIsoNow ELSE entry.at,
     message |-> IF entry.message \in {Undefined, "", " "} THEN "Order updated"
                 ELSE entry.message]

\* timeline.map(normalizeTimelineEntry)
RECURSIVE normalizeTimeline(_)
normalizeTimeline(timeline) ==
    IF timeline = <<>> THEN <<>>
    ELSE <<normalizeTimelineEntry(Head(timeline))>>
         \o normalizeTimeline(Tail(timeline))

\* a slip: the quantity is not raised to 1
sanitizeItemZeroQuantity(item) ==
    [product_id |-> item.product_id,
     unit_price |-> safeInteger(item.unit_price, Num(0)),
     quantity |-> safeInteger(item.quantity, Num(1))]

\* the line items of the model name their product by product_id
sanitizeItem(item) ==
    [product_id |-> item.product_id,
     unit_price |-> safeInteger(item.unit_price, Num(0)),
     quantity |-> Num(Max(1, MathFloor(safeInteger(item.quantity, Num(1)))))]

\* items.map(...).filter((item) => item.product_id)
RECURSIVE sanitizeOrderItems(_)
sanitizeOrderItems(items) ==
    IF items = <<>> THEN <<>>
    ELSE (IF Head(items).product_id # "" THEN <<sanitizeItem(Head(items))>> ELSE <<>>)
         \o sanitizeOrderItems(Tail(items))

RECURSIVE SumItems(_)
SumItems(items) ==
    IF items = <<>> THEN 0
    ELSE Head(items).unit_price.floor * Head(items).quantity.floor + SumItems(Tail(items))

normalizeOrder(order) ==
    LET items == sanitizeOrderItems(order.items)
        created == IF order.created_at = Null THEN toIsoNow ELSE order.created_at
    IN  [id |-> IF order.id = Null THEN createId ELSE order.id,
         user_email |-> normalizeEmail(order.user_email),
         status |-> normalizeStatus(order.status),
         shipping_status |-> normalizeShippingStatus(order.shipping_status),
         subtotal |-> safeInteger(order.subtotal, Num(SumItems(items))),
         created_at |-> created,
         updated_at |-> IF order.updated_at = Null THEN created ELSE order.updated_at,
         confirmed_at |-> order.confirmed_at,
         items |-> items,
         timeline |-> normalizeTimeline(order.timeline)]

----------------------------------------------------------------------------
(* Repository *)

\* a slip: an unstable sort, which puts an order before those of its own age
RECURSIVE InsertByNewestUnstable(_, _)
InsertByNewestUnstable(order, sorted) ==
    IF sorted = <<>> THEN <<order>>
    ELSE IF Head(sorted).created_at <= order.created_at
         THEN <<order>> \o sorted
         ELSE <<Head(sorted)>> \o InsertByNewestUnstable(order, Tail(sorted))

\* Array.prototype.sort is stable: insert each order before the first one
\* that is strictly older
RECURSIVE InsertByNewest(_, _)
InsertByNewest(order, sorted) ==
    IF sorted = <<>> THEN <<order>>
    ELSE IF Head(sorted).created_at < order.created_at
         THEN <<order>> \o sorted
         ELSE <<Head(sorted)>> \o InsertByNewest(order, Tail(sorted))

\* a slip: the list is kept in the order it came in
sortByNewestMissing(orders) == orders

RECURSIVE sortByNewest(_)
sortByNewest(orders) ==
    IF orders = <<>> THEN <<>>
    ELSE InsertByNewest(orders[Len(orders)],
                        sortByNewest(SubSeq(orders, 1, Len(orders) - 1)))

\* orders.map(normalizeOrder)
RECURSIVE normalizeAll(_)
normalizeAll(orders) ==
    IF orders = <<>> THEN <<>>
    ELSE <<normalizeOrder(Head(orders))>>
         \o normalizeAll(Tail(orders))

\* a slip: only a missing item is answered with the empty list
loadOrdersUnguarded ==
    IF storedAs = "missing" THEN <<>>
    ELSE CHOOSE sorted \in {sortByNewest(parsed) : parsed \in {normalizeAll(storage)}} : TRUE

\* [] for a missing item, for a text JSON.parse throws on and for JSON that is
\* no array; otherwise every parsed record normalized, newest first
loadOrders ==
    IF storedAs = "missing" THEN <<>>
    ELSE IF storedAs = "unparsable" THEN <<>>
    ELSE IF storedAs # "array" THEN <<>>
    ELSE CHOOSE sorted \in {sortByNewest(parsed) : parsed \in {normalizeAll(storage)}} : TRUE

\* a slip: cancelled orders are left out of the list that is written
saveOrdersDropsCancelled(orders) ==
    CHOOSE sorted \in
        {sortByNewest(SelectSeq(mapped, LAMBDA o : o.status # ORDER_STATUSES.CANCELLED)) :
            mapped \in {normalizeAll(orders)}} : TRUE

\* a save that merges: where the persisted record of an order has the longer
\* timeline, it is kept instead of the record handed in
saveOrdersMerged(orders) ==
    CHOOSE sorted \in
        {sortByNewest(
            [i \in 1..Len(mapped) |->
                IF \E p \in Range(storage) :
                      p.id = mapped[i].id /\ Len(p.timeline) > Len(mapped[i].timeline)
                THEN CHOOSE p \in Range(storage) :
                      p.id = mapped[i].id /\ Len(p.timeline) > Len(mapped[i].timeline)
                ELSE mapped[i]]) :
            mapped \in {normalizeAll(orders)}} : TRUE

\* the list saveOrders writes: every record normalized, newest first
saveOrders(orders) ==
    CHOOSE sorted \in {sortByNewest(mapped) : mapped \in {normalizeAll(orders)}} : TRUE

----------------------------------------------------------------------------
(* Catalog (ProductsProvider) *)

\* the fallback stock of a category
defaultStock(category) ==
    CASE category = "Accessories" -> 30
      [] category = "Lenses" -> 12
      [] OTHER -> 8

\* a slip: Math.floor is missing
toValidStockUnfloored(value, category) ==
    IF isFinite(value) /\ value.floor >= 0 THEN value
    ELSE Num(defaultStock(category))

toValidStock(value, category) ==
    IF isFinite(value) /\ value.floor >= 0 THEN Num(MathFloor(value))
    ELSE Num(defaultStock(category))

withNormalizedStock(item) ==
    [item EXCEPT !.stock = toValidStock(item.stock, item.category)]

\* every product of the model has an image; a product needs a non-blank id
isVisibleProduct(item) == item.id # ""

\* items.map(withNormalizedStock(withSeedImage(item))).filter(isVisibleProduct)
RECURSIVE sanitizeProducts(_)
sanitizeProducts(list) ==
    IF list = <<>> THEN <<>>
    ELSE (IF isVisibleProduct(Head(list)) THEN <<withNormalizedStock(Head(list))>> ELSE <<>>)
         \o sanitizeProducts(Tail(list))

\* the catalog a first visit starts from
seedProducts ==
    <<[id |-> "p1", category |-> "Cameras", price |-> 100, stock |-> Num(1)],
      [id |-> "p2", category |-> "Accessories", price |-> 50, stock |-> Num(1)]>>

\* nothing stored yet: sanitizeProducts(seedProducts)
loadProducts == sanitizeProducts(seedProducts)

\* updateProduct(id, {stock}) applied to the catalog prev
updateProduct(prev, id, stock) ==
    sanitizeProducts(
        [i \in 1..Len(prev) |->
            IF prev[i].id = id THEN [prev[i] EXCEPT !.stock = stock] ELSE prev[i]])

\* the stock adjustStock computes for the product it was asked to adjust
nextStock(item, quantityDelta) ==
    LET sum == Plus(item.stock, quantityDelta)
    IN  IF isFinite(sum) THEN Num(Max(0, MathFloor(sum))) ELSE item.stock

\* adjustStock(id, quantityDelta) applied to the catalog prev
adjustStock(prev, id, quantityDelta) ==
    sanitizeProducts(
        [i \in 1..Len(prev) |->
            IF prev[i].id # id THEN prev[i]
            ELSE [prev[i] EXCEPT !.stock = nextStock(prev[i], quantityDelta)]])

\* removeProduct(id) applied to the catalog prev
removeProduct(prev, id) == SelectSeq(prev, LAMBDA item : item.id # id)

\* the stock the pages read from a product or a cart line
toStock(value) ==
    IF ~isFinite(value) THEN 0 ELSE Max(0, MathFloor(value))

\* products.find((p) => p.id === id): <<>> when the catalog has no such product
findProduct(catalog, id) == SelectSeq(catalog, LAMBDA p : p.id = id)

\* the stock the shop and product pages show for what find returned
getStockCount(found) ==
    IF found = <<>> THEN 0
    ELSE IF ~isFinite(found[1].stock) THEN 0
    ELSE Max(0, MathFloor(found[1].stock))

----------------------------------------------------------------------------
(* Cart (CartProvider) *)

\* Number.POSITIVE_INFINITY: a limit no quantity of the model comes near
INFINITE_STOCK == 999999

toStockLimit(item) ==
    IF ~isFinite(item.stock) THEN INFINITE_STOCK ELSE Max(0, MathFloor(item.stock))

toQuantity(value, fallback) ==
    IF ~isFinite(value) THEN fallback ELSE Max(0, MathFloor(value))

\* the cart after addItem(product, qty) got past its stock test
addedItems(prev, product, qty) ==
    LET requestedQty == Max(1, toQuantity(qty, 1))
        stockLimit == toStockLimit(product)
        existing == {i \in 1..Len(prev) : prev[i].id = product.id}
    IN  IF existing # {}
        THEN [i \in 1..Len(prev) |->
                IF prev[i].id = product.id
                THEN [id |-> product.id, price |-> product.price,
                      stock |-> Num(stockLimit),
                      quantity |-> Min(prev[i].quantity + requestedQty, stockLimit)]
                ELSE prev[i]]
        ELSE prev \o <<[id |-> product.id, price |-> product.price,
                        stock |-> Num(stockLimit),
                        quantity |-> Min(requestedQty, stockLimit)]>>

\* a slip: a line whose quantity drops to zero stays in the cart
updatedItemsKeepsEmpty(prev, id, quantity) ==
    [i \in 1..Len(prev) |->
        IF prev[i].id # id THEN prev[i]
        ELSE [prev[i] EXCEPT
                !.quantity = Min(toQuantity(quantity, prev[i].quantity),
                                 toStockLimit(prev[i]))]]

\* the cart after updateQuantity(id, quantity)
updatedItems(prev, id, quantity) ==
    SelectSeq(
        [i \in 1..Len(prev) |->
            IF prev[i].id # id THEN prev[i]
            ELSE [prev[i] EXCEPT
                    !.quantity = Min(toQuantity(quantity, prev[i].quantity),
                                     toStockLimit(prev[i]))]],
        LAMBDA item : item.quantity > 0)

\* the cart after removeItem(id)
removedItems(prev, id) == SelectSeq(prev, LAMBDA item : item.id # id)

\* summary.subtotal
RECURSIVE cartSubtotal(_)
cartSubtotal(lines) ==
    IF lines = <<>> THEN 0
    ELSE Head(lines).price * Head(lines).quantity + cartSubtotal(Tail(lines))

----------------------------------------------------------------------------
(* Inputs of the operations *)

\* the signed-in customer's e-mail as typed: " A "
CustomerEmails == {<<" ", "A", " ">>}

\* the e-mail cancelOrder is given: none, the customer's, or another one
CancelEmails == {<<>>, <<"A">>, <<"b", " ">>}

\* the actor label of the admin handlers: auth.email || "admin"
Actors == {"admin"}

\* the cart lines handed to createOrder
ItemInputs ==
    {<<[product_id |-> "p1", unit_price |-> Num(100), quantity |-> Num(2)],
       [product_id |-> "p2", unit_price |-> Num(50), quantity |-> Num(1)]>>}

\* the subtotal handed to createOrder: none, or the cart's own sum
SubtotalInputs == {NotFinite, Num(250)}

\* what the shipping select, or any other caller, may pass
ShippingInputs == Range(SHIPPING_STATUS_OPTIONS) \cup {"returned"}

StoredIds == {storage[i].id : i \in 1..Len(storage)}

\* what the admin page hands to getRevenueMetrics: nothing, the list it has
\* loaded, or the newest order of that list only
Snapshots ==
    {<<>>, <<loadOrders>>, <<SubSeq(loadOrders, 1, Min(1, Len(loadOrders)))>>}

\* records a hand-edited or foreign item may hold.  RawBlank has no field at
\* all; RawEdited has an unknown status and shipping status, a subtotal of
\* -2.5, a line without product id, a line with price -0.5 and quantity 0, and
\* a timeline entry with a blank message; RawKept is older, upper-cases its
\* status and has a subtotal of 7.5 and a line with price 20.5 and no quantity
RawBlank ==
    [id |-> Null, user_email |-> <<>>, status |-> Undefined,
     shipping_status |-> Undefined, subtotal |-> NotFinite,
     created_at |-> Null, updated_at |-> Null, confirmed_at |-> Null,
     items |-> <<>>, timeline |-> <<>>]

RawEdited ==
    [id |-> 1, user_email |-> <<" ", "B">>, status |-> "refunded",
     shipping_status |-> "returned", subtotal |-> Half(-3),
     created_at |-> 2, updated_at |-> Null, confirmed_at |-> Null,
     items |-> <<[product_id |-> "", unit_price |-> Num(10), quantity |-> Num(1)],
                 [product_id |-> "p1", unit_price |-> Half(-1), quantity |-> Num(0)]>>,
     timeline |-> <<[id |-> Null, at |-> Null, message |-> " "]>>]

RawKept ==
    [id |-> 2, user_email |-> <<"a">>, status |-> "PENDING",
     shipping_status |-> "awaiting_confirmation", subtotal |-> Half(7),
     created_at |-> 1, updated_at |-> 1, confirmed_at |-> Null,
     items |-> <<[product_id |-> "p2", unit_price |-> Half(20), quantity |-> NotFinite]>>,
     timeline |-> <<[id |-> 3, at |-> 1, message |-> "Order placed by customer"]>>]

\* the arrays the item may spell out, the second to last oldest first
RawLists ==
    {<<>>, <<RawBlank>>, <<RawEdited>>, <<RawKept, RawEdited>>, <<RawBlank, RawKept>>}

\* the array a damaged item spelled out before it was damaged
DamagedList == <<RawKept, RawEdited>>

\* what localStorage.getItem and JSON.parse may come up with
StoredKinds == {"missing", "unparsable", "notArray", "array"}

\* the e-mails, line items and subtotals handed to createOrder in the intake
\* runs: a line without product id next to one with price 99.5 and quantity
\* 0; no subtotal, 12.5 and -5
IntakeEmails == {<<" ", "A", " ">>, <<>>, <<"b">>}

IntakeItems ==
    ItemInputs \cup
    {<<[product_id |-> "", unit_price |-> Num(10), quantity |-> Num(1)],
       [product_id |-> "p1", unit_price |-> Half(99), quantity |-> Num(0)]>>}

IntakeSubtotals == {NotFinite, Half(12), Num(-5)}

\* the e-mails getOrdersForUser is asked for: none, blank, " A", "b"
EmailQueries == {<<>>, <<" ">>, <<" ", "A">>, <<"b">>}

RECURSIVE CountEvents(_)
CountEvents(orders) ==
    IF orders = <<>> THEN 0
    ELSE Len(Head(orders).timeline) + CountEvents(Tail(orders))

\* what resolveAuthState() may resolve to: signed out, an admin flag without
\* an e-mail, or the signed-in customer
SignedOut == [isAuthenticated |-> FALSE, email |-> <<>>]

AuthStates ==
    {SignedOut,
     [isAuthenticated |-> TRUE, email |-> <<>>],
     [isAuthenticated |-> TRUE, email |-> <<"a">>]}

\* the stock drafts typed into the admin page: no number, -0.5, 0, 1.5
StockDrafts == {NotFinite, Half(-1), Num(0), Half(1)}

\* the drafts of the storefront runs, where an ignored draft adds nothing
AcceptedStockDrafts == {Num(0), Half(1)}

\* the shipping status the admin picks in the storefront runs
AdminShippingInputs == {SHIPPING_STATUSES.CANCELLED}

\* the product whose stock the admin edits in the storefront runs
AdminProductIds == {"p1"}

\* the stock values and deltas handed to the catalog in the inventory runs:
\* no number, -2, 0.5, 3 and no number, -3, -0.5, 0.5, 1
StockValues == {NotFinite, Num(-2), Half(0), Num(3)}

StockDeltas == {NotFinite, Num(-3), Half(-1), Half(0), Num(1)}

\* the stock a stored or seeded product may carry when the catalog is loaded
SeedStocks == {Num(1), NotFinite}

\* the quantities handed to the cart: no number, -1, 0, 1.5, 5
QuantityInputs == {NotFinite, Num(-1), Num(0), Half(1), Num(5)}

\* the stock drafts the admin saves in the cart runs: 0 and 2.5
CartStockDrafts == {Num(0), Half(2)}

\* no storefront handler has run yet
NoHandler ==
    [handler |-> "none", productId |-> "", value |-> Num(0), auth |-> SignedOut,
     outcome |-> "", names |-> <<>>]

----------------------------------------------------------------------------
(* Operations *)

\* the newest time stamp any stored order carries, 0 when there is none
RECURSIVE LatestStamp(_)
LatestStamp(orders) ==
    IF orders = <<>> THEN 0
    ELSE Max(Head(orders).updated_at, LatestStamp(Tail(orders)))

\* time passes between two calls.  The code only compares time stamps, so a
\* clock that is already ahead of every stored stamp need not advance again.
Tick ==
    /\ clock <= LatestStamp(storage)
    /\ clock' = clock + 1
    /\ UNCHANGED <<storage, storedAs, nextId, last, prevStorage, result>>
    /\ UNCHANGED <<shopVars, writers, eventLimit>>

\* the tabs that write the list, and a tab that is in no lifecycle call
Writers == {1, 2}

NotLoaded == [pc |-> "idle", orders |-> <<>>, result |-> NoOrder, stale |-> FALSE]

Init ==
    /\ storage = <<>>
    /\ storedAs = "missing"
    /\ clock = 1
    /\ nextId = 1
    /\ last = [op |-> "none", orderId |-> Null, shippingStatus |-> Undefined,
               email |-> <<>>, autoConfirm |-> FALSE]
    /\ prevStorage = <<>>
    /\ result = NoOrder
    /\ eventLimit = MaxEvents
    /\ writers = [w \in Writers |-> NotLoaded]
    /\ products = loadProducts
    /\ cartItems = <<>>
    /\ placing = <<>>
    /\ shopLast = NoHandler

\* the status and shipping status createOrder gives a new order
initialStatus(isConfirmed) ==
    IF isConfirmed THEN ORDER_STATUSES.CONFIRMED ELSE ORDER_STATUSES.PENDING

\* a slip: the auto-confirm policy does not reach the shipping status
initialShippingStatusAwaiting(isConfirmed) ==
    SHIPPING_STATUSES.AWAITING_CONFIRMATION

initialShippingStatus(isConfirmed) ==
    IF isConfirmed THEN SHIPPING_STATUSES.PROCESSING
    ELSE SHIPPING_STATUSES.AWAITING_CONFIRMATION

createOrder(userEmail, items, subtotal, autoConfirm) ==
    LET now == toIsoNow
        normalizedItems == sanitizeOrderItems(items)
        computedSubtotal == safeInteger(subtotal, Num(SumItems(normalizedItems)))
        isConfirmed == autoConfirm
        placed == <<[id |-> nextId, at |-> now, message |-> "Order placed by customer"]>>
        timeline ==
            IF isConfirmed
            THEN placed \o <<[id |-> nextId + 1, at |-> now,
                              message |-> "Order auto-confirmed by system"]>>
            ELSE placed
        orderId == nextId + Len(timeline)
        order ==
            normalizeOrder(
                [id |-> orderId,
                 user_email |-> userEmail,
                 status |-> initialStatus(isConfirmed),
                 shipping_status |-> initialShippingStatus(isConfirmed),
                 subtotal |-> computedSubtotal,
                 created_at |-> now,
                 updated_at |-> now,
                 confirmed_at |-> IF isConfirmed THEN now ELSE Null,
                 items |-> normalizedItems,
                 timeline |-> timeline])
    IN  /\ CountEvents(storage) + Len(timeline) <= eventLimit
        /\ \E orders \in {loadOrders} :
              storage' = saveOrders(<<order>> \o orders)
        /\ storedAs' = "array"
        /\ UNCHANGED clock
        /\ nextId' = orderId + 1
        /\ last' = [op |-> "createOrder", orderId |-> orderId,
                    shippingStatus |-> Undefined, email |-> userEmail,
                    autoConfirm |-> autoConfirm]
        /\ prevStorage' = storage
        /\ result' = <<order>>

\* a slip: confirming does not move the shipping status on
confirmedOrderKeepsShipping(order, adminEmail) ==
    LET now == toIsoNow IN
    normalizeOrder(
        [order EXCEPT
            !.status = ORDER_STATUSES.CONFIRMED,
            !.confirmed_at = IF order.confirmed_at = Null THEN now ELSE order.confirmed_at,
            !.updated_at = now,
            !.timeline = order.timeline \o
                <<[id |-> nextId, at |-> now,
                   message |-> "Order confirmed by " \o adminEmail]>>])

\* a slip: confirming writes no timeline entry
confirmedOrderSilent(order, adminEmail) ==
    LET now == toIsoNow IN
    normalizeOrder(
        [order EXCEPT
            !.status = ORDER_STATUSES.CONFIRMED,
            !.shipping_status =
                IF order.shipping_status = SHIPPING_STATUSES.AWAITING_CONFIRMATION
                THEN SHIPPING_STATUSES.PROCESSING
                ELSE order.shipping_status,
            !.confirmed_at = IF order.confirmed_at = Null THEN now ELSE order.confirmed_at,
            !.updated_at = now])

\* a slip: confirming stamps confirmed_at anew every time
confirmedOrderRestamps(order, adminEmail) ==
    LET now == toIsoNow IN
    normalizeOrder(
        [order EXCEPT
            !.status = ORDER_STATUSES.CONFIRMED,
            !.shipping_status =
                IF order.shipping_status = SHIPPING_STATUSES.AWAITING_CONFIRMATION
                THEN SHIPPING_STATUSES.PROCESSING
                ELSE order.shipping_status,
            !.confirmed_at = now,
            !.updated_at = now,
            !.timeline = order.timeline \o
                <<[id |-> nextId, at |-> now,
                   message |-> "Order confirmed by " \o adminEmail]>>])

\* a slip: confirming leaves confirmed_at as it was
confirmedOrderUnstamped(order, adminEmail) ==
    LET now == toIsoNow IN
    normalizeOrder(
        [order EXCEPT
            !.status = ORDER_STATUSES.CONFIRMED,
            !.shipping_status =
                IF order.shipping_status = SHIPPING_STATUSES.AWAITING_CONFIRMATION
                THEN SHIPPING_STATUSES.PROCESSING
                ELSE order.shipping_status,
            !.updated_at = now,
            !.timeline = order.timeline \o
                <<[id |-> nextId, at |-> now,
                   message |-> "Order confirmed by " \o adminEmail]>>])

\* the record confirmOrder builds for the order it was asked to confirm
confirmedOrder(order, adminEmail) ==
    LET now == toIsoNow IN
    normalizeOrder(
        [order EXCEPT
            !.status = ORDER_STATUSES.CONFIRMED,
            !.shipping_status =
                IF order.shipping_status = SHIPPING_STATUSES.AWAITING_CONFIRMATION
                THEN SHIPPING_STATUSES.PROCESSING
                ELSE order.shipping_status,
            !.confirmed_at = IF order.confirmed_at = Null THEN now ELSE order.confirmed_at,
            !.updated_at = now,
            !.timeline = order.timeline \o
                <<[id |-> nextId, at |-> now,
                   message |-> "Order confirmed by " \o adminEmail]>>])

\* confirmOrder from the list it has read: the map over the orders, the save
\* and the return value
confirmOrderWith(orders, orderId, adminEmail) ==
    \E nextOrders \in
        {[i \in 1..Len(orders) |->
            IF orders[i].id # orderId THEN orders[i]
            ELSE confirmedOrder(orders[i], adminEmail)]} :
    LET hit == {i \in 1..Len(orders) : orders[i].id = orderId}
        updatedOrder == IF hit = {} THEN NoOrder ELSE <<nextOrders[CHOOSE i \in hit : TRUE]>>
    IN  /\ hit # {} => CountEvents(orders) < eventLimit
        /\ storage' = saveOrders(nextOrders)
        /\ storedAs' = "array"
        /\ UNCHANGED clock
        /\ nextId' = IF hit = {} THEN nextId ELSE nextId + 1
        /\ last' = [op |-> "confirmOrder", orderId |-> orderId,
                    shippingStatus |-> Undefined, email |-> <<>>, autoConfirm |-> FALSE]
        /\ prevStorage' = storage
        /\ result' = updatedOrder

confirmOrder(orderId, adminEmail) ==
    \E orders \in {loadOrders} :
        confirmOrderWith(orders, orderId, adminEmail)

\* a slip: a shipping status of Cancelled does not reach the order status
shippedOrderKeepsStatus(order, nextStatus, adminEmail) ==
    LET now == toIsoNow IN
    normalizeOrder(
        [order EXCEPT
            !.shipping_status = nextStatus,
            !.updated_at = now,
            !.timeline = order.timeline \o
                <<[id |-> nextId, at |-> now,
                   message |-> "Shipping updated to \"" \o SHIPPING_STATUS_LABELS[nextStatus]
                               \o "\" by " \o adminEmail]>>])

\* a slip: the shipping update stamps created_at as well
shippedOrderRecreated(order, nextStatus, adminEmail) ==
    LET now == toIsoNow IN
    normalizeOrder(
        [order EXCEPT
            !.shipping_status = nextStatus,
            !.status = IF nextStatus = SHIPPING_STATUSES.CANCELLED
                       THEN ORDER_STATUSES.CANCELLED
                       ELSE order.status,
            !.created_at = now,
            !.updated_at = now,
            !.timeline = order.timeline \o
                <<[id |-> nextId, at |-> now,
                   message |-> "Shipping updated to \"" \o SHIPPING_STATUS_LABELS[nextStatus]
                               \o "\" by " \o adminEmail]>>])

\* the record updateShippingStatus builds for the order whose status changes
shippedOrder(order, nextStatus, adminEmail) ==
    LET now == toIsoNow IN
    normalizeOrder(
        [order EXCEPT
            !.shipping_status = nextStatus,
            !.status = IF nextStatus = SHIPPING_STATUSES.CANCELLED
                       THEN ORDER_STATUSES.CANCELLED
                       ELSE order.status,
            !.updated_at = now,
            !.timeline = order.timeline \o
                <<[id |-> nextId, at |-> now,
                   message |-> "Shipping updated to \"" \o SHIPPING_STATUS_LABELS[nextStatus]
                               \o "\" by " \o adminEmail]>>])

\* a slip: the early return for an unchanged status is missing
shippingChangesAlways(order, orderId, nextStatus) ==
    order.id = orderId

\* a slip: the id is not compared
shippingChangesAnyOrder(order, orderId, nextStatus) ==
    order.shipping_status # nextStatus

\* the orders updateShippingStatus rewrites: the one with the id, unless it
\* already has the requested status
shippingChanges(order, orderId, nextStatus) ==
    order.id = orderId /\ order.shipping_status # nextStatus

updateShippingStatus(orderId, shippingStatus, adminEmail) ==
    \E nextStatus \in {normalizeShippingStatus(shippingStatus)} :
    \E orders \in {loadOrders} :
    \E hit \in {{i \in 1..Len(orders) : shippingChanges(orders[i], orderId, nextStatus)}} :
    \E nextOrders \in
        {[i \in 1..Len(orders) |->
            IF i \notin hit THEN orders[i]
            ELSE shippedOrder(orders[i], nextStatus, adminEmail)]} :
    LET updatedOrder == IF hit = {} THEN NoOrder ELSE <<nextOrders[CHOOSE i \in hit : TRUE]>>
    IN  /\ hit # {} => CountEvents(storage) < eventLimit
        /\ storage' = saveOrders(nextOrders)
        /\ storedAs' = "array"
        /\ UNCHANGED clock
        /\ nextId' = IF hit = {} THEN nextId ELSE nextId + 1
        /\ last' = [op |-> "updateShippingStatus", orderId |-> orderId,
                    shippingStatus |-> shippingStatus, email |-> <<>>,
                    autoConfirm |-> FALSE]
        /\ prevStorage' = storage
        /\ result' = updatedOrder

\* a slip: a shipped order is still taken as cancellable
canOrderBeCancelledShipped(order) ==
    /\ order.status # ORDER_STATUSES.CANCELLED
    /\ order.shipping_status \notin
          {SHIPPING_STATUSES.DELIVERED, SHIPPING_STATUSES.CANCELLED}

canOrderBeCancelled(order) ==
    /\ order.status # ORDER_STATUSES.CANCELLED
    /\ order.shipping_status \notin
          {SHIPPING_STATUSES.SHIPPED, SHIPPING_STATUSES.DELIVERED, SHIPPING_STATUSES.CANCELLED}

\* a slip: the cancellation entry replaces the timeline instead of extending it
cancelledOrderDropsTimeline(order) ==
    LET now == toIsoNow IN
    normalizeOrder(
        [order EXCEPT
            !.status = ORDER_STATUSES.CANCELLED,
            !.shipping_status = SHIPPING_STATUSES.CANCELLED,
            !.updated_at = now,
            !.timeline =
                <<[id |-> nextId, at |-> now, message |-> "Order cancelled by customer"]>>])

\* the record cancelOrder builds for the order it cancels
cancelledOrder(order) ==
    LET now == toIsoNow IN
    normalizeOrder(
        [order EXCEPT
            !.status = ORDER_STATUSES.CANCELLED,
            !.shipping_status = SHIPPING_STATUSES.CANCELLED,
            !.updated_at = now,
            !.timeline = order.timeline \o
                <<[id |-> nextId, at |-> now, message |-> "Order cancelled by customer"]>>])

\* a slip: the canOrderBeCancelled test is missing
cancelsUnchecked(order, orderId, normalizedEmail) ==
    /\ order.id = orderId
    /\ ~(normalizedEmail # <<>> /\ order.user_email # normalizedEmail)

\* a slip: the caller's e-mail is not compared with the order's
cancelsAnyCustomer(order, orderId, normalizedEmail) ==
    /\ order.id = orderId
    /\ canOrderBeCancelled(order)

\* the orders cancelOrder rewrites: the one with the id, if the caller gave no
\* e-mail or the order's own, and the order can still be cancelled
cancels(order, orderId, normalizedEmail) ==
    /\ order.id = orderId
    /\ ~(normalizedEmail # <<>> /\ order.user_email # normalizedEmail)
    /\ canOrderBeCancelled(order)

\* what cancelOrder leaves persisted: it saves only when it cancelled an order
cancelPersists(cancelledOrNone, nextOrders) ==
    IF cancelledOrNone # NoOrder THEN saveOrders(nextOrders) ELSE storage

\* cancelOrder from the list it has read
cancelOrderWith(orders, orderId, userEmail) ==
    \E normalizedEmail \in {normalizeEmail(userEmail)} :
    \E hit \in {{i \in 1..Len(orders) : cancels(orders[i], orderId, normalizedEmail)}} :
    \E nextOrders \in
        {[i \in 1..Len(orders) |->
            IF i \notin hit THEN orders[i] ELSE cancelledOrder(orders[i])]} :
    LET cancelled == IF hit = {} THEN NoOrder ELSE <<nextOrders[CHOOSE i \in hit : TRUE]>>
    IN  /\ hit # {} => CountEvents(orders) < eventLimit
        /\ storage' = cancelPersists(cancelled, nextOrders)
        /\ storedAs' = IF cancelled # NoOrder THEN "array" ELSE storedAs
        /\ UNCHANGED clock
        /\ nextId' = IF hit = {} THEN nextId ELSE nextId + 1
        /\ last' = [op |-> "cancelOrder", orderId |-> orderId,
                    shippingStatus |-> Undefined, email |-> userEmail,
                    autoConfirm |-> FALSE]
        /\ prevStorage' = storage
        /\ result' = cancelled

cancelOrder(orderId, userEmail) ==
    \E orders \in {loadOrders} :
        cancelOrderWith(orders, orderId, userEmail)

\* a call of loadOrders(): the list a page gets
loadOrdersCall ==
    /\ result' = loadOrders
    /\ last' = [op |-> "loadOrders", orderId |-> Null, shippingStatus |-> Undefined,
                email |-> <<>>, autoConfirm |-> FALSE]
    /\ prevStorage' = storage
    /\ UNCHANGED <<storage, storedAs, clock, nextId>>

----------------------------------------------------------------------------
(* Storefront handlers *)

\* a handler that does not call the order engine
ordersIdle ==
    /\ UNCHANGED <<storage, storedAs, clock, nextId>>
    /\ last' = [op |-> "none", orderId |-> Null, shippingStatus |-> Undefined,
                email |-> <<>>, autoConfirm |-> FALSE]
    /\ prevStorage' = storage
    /\ result' = NoOrder

\* what a handler leaves in shopLast
recorded(handler, productId, value, auth, outcome, names) ==
    shopLast' = [handler |-> handler, productId |-> productId, value |-> value,
                 auth |-> auth, outcome |-> outcome, names |-> names]

\* a slip: the test for a product without stock is missing
addItemOutcomeUnchecked(product, auth) ==
    IF ~(auth.isAuthenticated /\ auth.email # <<>>) THEN "signin" ELSE "added"

\* what addItem answers: false after sending the visitor to the login page,
\* false for a product without stock, true after changing the cart
addItemOutcome(product, auth) ==
    IF ~(auth.isAuthenticated /\ auth.email # <<>>) THEN "signin"
    ELSE IF toStockLimit(product) <= 0 THEN "unavailable"
    ELSE "added"

\* CartContext.addItem(product, qty)
addItem(product, qty, auth) ==
    /\ \E outcome \in {addItemOutcome(product, auth)} :
          /\ cartItems' = IF outcome = "added"
                          THEN addedItems(cartItems, product, qty)
                          ELSE cartItems
          /\ recorded("addItem", product.id, qty, auth, outcome, <<>>)
    /\ UNCHANGED <<products, placing>>
    /\ ordersIdle

\* CartContext.updateQuantity(id, quantity)
updateQuantity(id, quantity) ==
    /\ cartItems' = updatedItems(cartItems, id, quantity)
    /\ UNCHANGED <<products, placing>>
    /\ recorded("updateQuantity", id, quantity, SignedOut, "", <<>>)
    /\ ordersIdle

\* CartContext.removeItem(id)
removeItem(id) ==
    /\ cartItems' = removedItems(cartItems, id)
    /\ UNCHANGED <<products, placing>>
    /\ recorded("removeItem", id, Num(0), SignedOut, "", <<>>)
    /\ ordersIdle

\* CartContext.clearCart()
clearCart ==
    /\ cartItems' = <<>>
    /\ UNCHANGED <<products, placing>>
    /\ recorded("clearCart", "", Num(0), SignedOut, "", <<>>)
    /\ ordersIdle

\* a slip: the admin page clamps a draft instead of refusing it
stockSavedClamped(prev, id, draft) ==
    updateProduct(prev, id,
        IF isFinite(draft) THEN Num(Max(0, MathFloor(draft))) ELSE Num(0))

\* the catalog Admin.handleStockSave leaves: a draft that is no number or is
\* negative is ignored
stockSaved(prev, id, draft) ==
    IF ~isFinite(draft) \/ draft.floor < 0 THEN prev
    ELSE updateProduct(prev, id, Num(MathFloor(draft)))

handleStockSave(id, draft) ==
    /\ products' = stockSaved(products, id, draft)
    /\ UNCHANGED <<cartItems, placing>>
    /\ recorded("handleStockSave", id, draft, SignedOut, "", <<>>)
    /\ ordersIdle

handleDeleteProduct(id) ==
    /\ products' = removeProduct(products, id)
    /\ UNCHANGED <<cartItems, placing>>
    /\ recorded("handleDeleteProduct", id, Num(0), SignedOut, "", <<>>)
    /\ ordersIdle

\* ProductsProvider.updateProduct(id, {stock}) called with any stock value
updateProductCall(id, stock) ==
    /\ products' = updateProduct(products, id, stock)
    /\ \A i \in 1..Len(products') : products'[i].stock.floor <= MaxStock
    /\ UNCHANGED <<cartItems, placing>>
    /\ recorded("updateProduct", id, stock, SignedOut, "", <<>>)
    /\ ordersIdle

\* ProductsProvider.adjustStock(id, quantityDelta) called with any delta
adjustStockCall(id, quantityDelta) ==
    /\ products' = adjustStock(products, id, quantityDelta)
    /\ \A i \in 1..Len(products') : products'[i].stock.floor <= MaxStock
    /\ UNCHANGED <<cartItems, placing>>
    /\ recorded("adjustStock", id, quantityDelta, SignedOut, "", <<>>)
    /\ ordersIdle

\* the stock handlePlaceOrder reads for a cart line: the catalog's, or the
\* line's own snapshot when the catalog of that render has no such product
getCurrentStock(item, catalog) ==
    LET known == {i \in 1..Len(catalog) : catalog[i].id = item.id}
    IN  IF known # {} THEN toStock(catalog[CHOOSE i \in known : TRUE].stock)
        ELSE toStock(item.stock)

stockIssues(lines, catalog) ==
    SelectSeq(lines, LAMBDA item : item.quantity > getCurrentStock(item, catalog))

\* the line items handed to createOrder
orderItems(lines) ==
    [i \in 1..Len(lines) |->
        [product_id |-> lines[i].id, unit_price |-> Num(lines[i].price),
         quantity |-> Num(lines[i].quantity)]]

\* items.forEach((item) => updateProduct(item.id, {stock: ...})): every write
\* goes to the catalog as it is now, its value comes from the render's stock
RECURSIVE stockWritten(_, _, _)
stockWritten(prev, lines, catalog) ==
    IF lines = <<>> THEN prev
    ELSE stockWritten(
            updateProduct(prev, Head(lines).id,
                Num(Max(0, getCurrentStock(Head(lines), catalog) - Head(lines).quantity))),
            Tail(lines), catalog)

\* a slip: the stock test comes before the sign-in test
placeOrderOutcomeStockFirst(auth, issues) ==
    IF issues # <<>> THEN "stock"
    ELSE IF ~auth.isAuthenticated \/ auth.email = <<>> THEN "signin"
    ELSE "placed"

\* which way handlePlaceOrder leaves once resolveAuthState has answered
placeOrderOutcome(auth, issues) ==
    IF ~auth.isAuthenticated \/ auth.email = <<>> THEN "signin"
    ELSE IF issues # <<>> THEN "stock"
    ELSE "placed"

\* handlePlaceOrder up to its await: the handler keeps the cart and the
\* catalog of the render it was created in.  The Cart page and the Checkout
\* page each have the handler and a flag of their own.
placeOrderBegin(page) ==
    /\ cartItems # <<>>
    /\ \A k \in 1..Len(placing) : placing[k].page # page   \* isPlacingOrder, isPlacing
    /\ placing' = Append(placing, [page |-> page, items |-> cartItems,
                                   products |-> products])
    /\ UNCHANGED <<products, cartItems>>
    /\ recorded("placeOrderBegin", "", Num(0), SignedOut, "", <<>>)
    /\ ordersIdle

\* handlePlaceOrder from the answer of resolveAuthState to its end
handlePlaceOrder(k, auth, autoConfirm) ==
    /\ k \in 1..Len(placing)
    /\ \E render \in {placing[k]} :
       \E issues \in {stockIssues(render.items, render.products)} :
       \E outcome \in {placeOrderOutcome(auth, issues)} :
          /\ IF outcome = "placed"
             THEN /\ Len(storage) < MaxPlaced
                  /\ createOrder(auth.email, orderItems(render.items),
                                 Num(cartSubtotal(render.items)), autoConfirm)
                  /\ products' = stockWritten(products, render.items, render.products)
                  /\ cartItems' = <<>>                   \* clearCart()
             ELSE /\ ordersIdle
                  /\ UNCHANGED <<products, cartItems>>
          /\ placing' = [i \in 1..(Len(placing) - 1) |->
                            IF i < k THEN placing[i] ELSE placing[i + 1]]
          /\ recorded("handlePlaceOrder", "", Num(0), auth, outcome,
                      [i \in 1..Len(issues) |-> issues[i].id])

\* order.items.forEach((item) => adjustStock(item.product_id, item.quantity))
RECURSIVE stockRestored(_, _)
stockRestored(prev, lines) ==
    IF lines = <<>> THEN prev
    ELSE stockRestored(
            adjustStock(prev, Head(lines).product_id, Head(lines).quantity),
            Tail(lines))

\* a slip: an empty e-mail is compared like any other
getOrdersForUserUnguarded(email) ==
    SelectSeq(loadOrders, LAMBDA order : order.user_email = normalizeEmail(email))

\* getOrdersForUser(email): the orders the customer's page lists
getOrdersForUser(email) ==
    IF normalizeEmail(email) = <<>> THEN <<>>
    ELSE SelectSeq(loadOrders, LAMBDA order : order.user_email = normalizeEmail(email))

\* a call of getOrdersForUser(email): the list the orders page gets
getOrdersForUserCall(email) ==
    /\ result' = getOrdersForUser(email)
    /\ last' = [op |-> "getOrdersForUser", orderId |-> Null,
                shippingStatus |-> Undefined, email |-> email, autoConfirm |-> FALSE]
    /\ prevStorage' = storage
    /\ UNCHANGED <<storage, storedAs, clock, nextId>>

\* confirmedOrders.reduce((sum, order) => sum + safeInteger(order.subtotal), 0)
RECURSIVE sumSubtotals(_)
sumSubtotals(orders) ==
    IF orders = <<>> THEN 0
    ELSE MathFloor(safeInteger(Head(orders).subtotal, Num(0))) + sumSubtotals(Tail(orders))

\* a slip: the revenue is summed over every order
getRevenueMetricsAllOrders(ordersInput) ==
    LET orders == IF ordersInput # <<>> THEN normalizeAll(ordersInput[1]) ELSE loadOrders
        confirmedOrders == SelectSeq(orders, LAMBDA order : order.status = ORDER_STATUSES.CONFIRMED)
    IN  [totalRevenue |-> sumSubtotals(orders),
         confirmedCount |-> Len(confirmedOrders),
         pendingCount |->
            Len(SelectSeq(orders, LAMBDA order : order.status = ORDER_STATUSES.PENDING)),
         totalOrders |-> Len(orders)]

\* getRevenueMetrics(ordersInput): ordersInput is <<>> when the caller passes
\* no array and <<snapshot>> otherwise.  The revenue of the current day and
\* month, which compare created_at with the calendar, are left out.
getRevenueMetrics(ordersInput) ==
    LET orders == IF ordersInput # <<>> THEN normalizeAll(ordersInput[1]) ELSE loadOrders
        confirmedOrders == SelectSeq(orders, LAMBDA order : order.status = ORDER_STATUSES.CONFIRMED)
    IN  [totalRevenue |-> sumSubtotals(confirmedOrders),
         confirmedCount |-> Len(confirmedOrders),
         pendingCount |->
            Len(SelectSeq(orders, LAMBDA order : order.status = ORDER_STATUSES.PENDING)),
         totalOrders |-> Len(orders)]

\* a call of getRevenueMetrics: the metrics the admin page shows
getRevenueMetricsCall(ordersInput) ==
    /\ result' = <<getRevenueMetrics(ordersInput)>>
    /\ last' = [op |-> "getRevenueMetrics", orderId |-> Null,
                shippingStatus |-> Undefined, email |-> <<>>, autoConfirm |-> FALSE]
    /\ prevStorage' = storage
    /\ UNCHANGED <<storage, storedAs, clock, nextId>>

\* Orders.handleCancelOrder(order) for an order the page lists
handleCancelOrder(order, auth) ==
    /\ auth.email # <<>>
    /\ IF ~canOrderBeCancelled(order)
       THEN /\ ordersIdle
            /\ UNCHANGED products
            /\ recorded("handleCancelOrder", "", Num(0), auth, "not cancellable", <<>>)
       ELSE /\ cancelOrder(order.id, auth.email)
            /\ products' = IF result' # NoOrder
                           THEN stockRestored(products, order.items)
                           ELSE products
            /\ recorded("handleCancelOrder", "", Num(0), auth,
                        IF result' # NoOrder THEN "cancelled" ELSE "unable", <<>>)
    /\ UNCHANGED <<cartItems, placing>>

\* Admin.handleShippingStatusChange(orderId, status)
handleShippingStatusChange(orderId, status, adminEmail) ==
    /\ updateShippingStatus(orderId, status, adminEmail)
    /\ UNCHANGED <<products, cartItems, placing>>
    /\ recorded("handleShippingStatusChange", "", Num(0), SignedOut, "", <<>>)

----------------------------------------------------------------------------
(* Specification *)

\* the ids a caller may pass: every stored order's, and one no order has
OrderIds == StoredIds \cup {nextId}

CreateOrder ==
    \E userEmail \in CustomerEmails, items \in ItemInputs, subtotal \in SubtotalInputs,
       autoConfirm \in BOOLEAN :
        /\ createOrder(userEmail, items, subtotal, autoConfirm)
        /\ UNCHANGED <<shopVars, writers, eventLimit>>

ConfirmOrder ==
    \E orderId \in OrderIds, adminEmail \in Actors :
        /\ confirmOrder(orderId, adminEmail)
        /\ UNCHANGED <<shopVars, writers, eventLimit>>

UpdateShippingStatus ==
    \E orderId \in OrderIds, shippingStatus \in ShippingInputs, adminEmail \in Actors :
        /\ updateShippingStatus(orderId, shippingStatus, adminEmail)
        /\ UNCHANGED <<shopVars, writers, eventLimit>>

CancelOrder ==
    \E orderId \in OrderIds, userEmail \in CancelEmails :
        /\ cancelOrder(orderId, userEmail)
        /\ UNCHANGED <<shopVars, writers, eventLimit>>

Next ==
    \/ Tick
    \/ CreateOrder
    \/ ConfirmOrder
    \/ UpdateShippingStatus
    \/ CancelOrder

Spec == Init /\ [][Next]_vars

----------------------------------------------------------------------------
(* The storefront around the order engine: one browser tab with its catalog *)
(* and cart, the customer's pages and the admin page.  The clock stands     *)
(* still: no storefront handler reads a time stamp.                         *)

\* the add buttons of the pages are disabled for a product without stock;
\* the storefront runs follow the signed-in calls, which change the cart
AddItem ==
    \E i \in 1..Len(products), auth \in AuthStates :
        /\ addItemOutcome(products[i], auth) = "added"
        /\ addItem(products[i], Num(1), auth)
        /\ UNCHANGED <<writers, eventLimit>>

\* the ids of the products the admin page lists
ListedIds == {products[i].id : i \in 1..Len(products)}

HandleStockSave ==
    \E id \in ListedIds \cap AdminProductIds, draft \in AcceptedStockDrafts :
        /\ handleStockSave(id, draft)
        /\ UNCHANGED <<writers, eventLimit>>

HandleDeleteProduct ==
    \E id \in ListedIds \cap AdminProductIds :
        /\ handleDeleteProduct(id)
        /\ UNCHANGED <<writers, eventLimit>>

PlaceOrderBegin ==
    /\ placeOrderBegin("Cart")
    /\ UNCHANGED <<writers, eventLimit>>

HandlePlaceOrder ==
    \E k \in 1..Len(placing), auth \in AuthStates, autoConfirm \in BOOLEAN :
        /\ handlePlaceOrder(k, auth, autoConfirm)
        /\ UNCHANGED <<writers, eventLimit>>

HandleCancelOrder ==
    \E auth \in AuthStates :
    \E listed \in {getOrdersForUser(auth.email)} :
    \E i \in 1..Len(listed) :
        /\ handleCancelOrder(listed[i], auth)
        /\ UNCHANGED <<writers, eventLimit>>

\* the select is disabled while order.status is "pending"
HandleShippingStatusChange ==
    \E order \in Range(storage), status \in AdminShippingInputs, adminEmail \in Actors :
        /\ order.status # "pending"
        /\ handleShippingStatusChange(order.id, status, adminEmail)
        /\ UNCHANGED <<writers, eventLimit>>

ShopNext ==
    \/ AddItem
    \/ HandleStockSave
    \/ HandleDeleteProduct
    \/ PlaceOrderBegin
    \/ HandlePlaceOrder
    \/ HandleCancelOrder
    \/ HandleShippingStatusChange

ShopSpec == Init /\ [][ShopNext]_vars

----------------------------------------------------------------------------
(* The catalog on its own: the admin's stock edits and the calls that order *)
(* placement (updateProduct) and cancellation (adjustStock) make, with any  *)
(* value or delta, from a catalog loaded with valid or missing stocks.      *)

InventoryInit ==
    /\ storage = <<>>
    /\ storedAs = "missing"
    /\ clock = 1
    /\ nextId = 1
    /\ last = [op |-> "none", orderId |-> Null, shippingStatus |-> Undefined,
               email |-> <<>>, autoConfirm |-> FALSE]
    /\ prevStorage = <<>>
    /\ result = NoOrder
    /\ eventLimit = MaxEvents
    /\ writers = [w \in Writers |-> NotLoaded]
    /\ \E s1 \in SeedStocks, s2 \in SeedStocks :
          products = sanitizeProducts(
              <<[seedProducts[1] EXCEPT !.stock = s1],
                [seedProducts[2] EXCEPT !.stock = s2]>>)
    /\ cartItems = <<>>
    /\ placing = <<>>
    /\ shopLast = NoHandler

SaveStockDraft ==
    \E id \in ListedIds, draft \in StockDrafts :
        /\ handleStockSave(id, draft)
        /\ UNCHANGED <<writers, eventLimit>>

UpdateProductStock ==
    \E id \in ListedIds, stock \in StockValues :
        /\ updateProductCall(id, stock)
        /\ UNCHANGED <<writers, eventLimit>>

AdjustStock ==
    \E id \in ListedIds, quantityDelta \in StockDeltas :
        /\ adjustStockCall(id, quantityDelta)
        /\ UNCHANGED <<writers, eventLimit>>

DeleteProduct ==
    \E id \in ListedIds :
        /\ handleDeleteProduct(id)
        /\ UNCHANGED <<writers, eventLimit>>

InventoryNext ==
    \/ SaveStockDraft
    \/ UpdateProductStock
    \/ AdjustStock
    \/ DeleteProduct

InventorySpec == InventoryInit /\ [][InventoryNext]_vars

\* The cart on its own: every call of the cart context with any quantity, and
\* the admin changing the stock between the calls
CartAddItem ==
    \E i \in 1..Len(products), qty \in QuantityInputs, auth \in AuthStates :
        /\ addItem(products[i], qty, auth)
        /\ UNCHANGED <<writers, eventLimit>>

CartUpdateQuantity ==
    \E i \in 1..Len(cartItems), quantity \in QuantityInputs :
        /\ updateQuantity(cartItems[i].id, quantity)
        /\ UNCHANGED <<writers, eventLimit>>

CartRemoveItem ==
    \E i \in 1..Len(cartItems) :
        /\ removeItem(cartItems[i].id)
        /\ UNCHANGED <<writers, eventLimit>>

CartClearCart ==
    /\ clearCart
    /\ UNCHANGED <<writers, eventLimit>>

CartStockSave ==
    \E id \in ListedIds, draft \in CartStockDrafts :
        /\ handleStockSave(id, draft)
        /\ UNCHANGED <<writers, eventLimit>>

CartNext ==
    \/ CartAddItem
    \/ CartUpdateQuantity
    \/ CartRemoveItem
    \/ CartClearCart
    \/ CartStockSave

CartSpec == Init /\ [][CartNext]_vars

\* The repository over an item the library did not write: the item is
\* missing, unparsable, no array, or an array of hand-edited records
StorageInit ==
    /\ storage \in RawLists
    /\ storedAs \in StoredKinds
    /\ storedAs = "missing" => storage = <<>>
    /\ storedAs \in {"unparsable", "notArray"} => storage = DamagedList
    /\ clock = 3
    /\ nextId = 10
    /\ last = [op |-> "none", orderId |-> Null, shippingStatus |-> Undefined,
               email |-> <<>>, autoConfirm |-> FALSE]
    /\ prevStorage = storage
    /\ result = NoOrder
    /\ eventLimit = MaxEvents
    /\ writers = [w \in Writers |-> NotLoaded]
    /\ products = loadProducts
    /\ cartItems = <<>>
    /\ placing = <<>>
    /\ shopLast = NoHandler

LoadOrders ==
    /\ loadOrdersCall
    /\ UNCHANGED <<shopVars, writers, eventLimit>>

\* the admin page computes its metrics; the ids of the snapshot it passed
\* are kept in shopLast
GetRevenueMetrics ==
    \E ordersInput \in Snapshots :
        /\ getRevenueMetricsCall(ordersInput)
        /\ recorded("getRevenueMetrics", "", Num(0), SignedOut,
                    IF ordersInput = <<>> THEN "loads" ELSE "snapshot",
                    IF ordersInput = <<>> THEN <<>>
                    ELSE [i \in 1..Len(ordersInput[1]) |-> ordersInput[1][i].id])
        /\ UNCHANGED <<products, cartItems, placing>>
        /\ UNCHANGED <<writers, eventLimit>>

\* the admin marks an order as shipped
ShipOrder ==
    \E orderId \in OrderIds, adminEmail \in Actors :
        /\ updateShippingStatus(orderId, SHIPPING_STATUSES.SHIPPED, adminEmail)
        /\ UNCHANGED <<shopVars, writers, eventLimit>>

\* the clock stands still: every order the library creates is newer than the
\* records the item held, and as new as the other orders it creates
StorageNext ==
    \/ LoadOrders
    \/ GetRevenueMetrics
    \/ CreateOrder
    \/ ConfirmOrder
    \/ ShipOrder
    \/ CancelOrder

StorageSpec == StorageInit /\ [][StorageNext]_vars

\* The intake of orders: createOrder with any e-mail, line items and subtotal,
\* and the orders page asking for a customer's orders
IntakeCreateOrder ==
    \E userEmail \in IntakeEmails, items \in IntakeItems, subtotal \in IntakeSubtotals,
       autoConfirm \in BOOLEAN :
        /\ Len(storage) < MaxIntake
        /\ createOrder(userEmail, items, subtotal, autoConfirm)
        /\ recorded("createOrder", "", subtotal, SignedOut, "", <<>>)
        /\ UNCHANGED <<products, cartItems, placing>>
        /\ UNCHANGED <<writers, eventLimit>>

GetOrdersForUser ==
    \E email \in EmailQueries :
        /\ getOrdersForUserCall(email)
        /\ UNCHANGED <<shopVars, writers, eventLimit>>

\* the clock stands still: neither call depends on the time that has passed
IntakeNext ==
    \/ IntakeCreateOrder
    \/ GetOrdersForUser

IntakeSpec == Init /\ [][IntakeNext]_vars

\* The storefront with the library's lifecycle calls in any order: a customer
\* places and cancels orders, confirmOrder is called with any id, orders are
\* marked as in processing, and nobody edits the stock.
RevivalInit ==
    /\ storage = <<>>
    /\ storedAs = "missing"
    /\ clock = 1
    /\ nextId = 1
    /\ last = [op |-> "none", orderId |-> Null, shippingStatus |-> Undefined,
               email |-> <<>>, autoConfirm |-> FALSE]
    /\ prevStorage = <<>>
    /\ result = NoOrder
    /\ eventLimit = MaxRevivalEvents
    /\ writers = [w \in Writers |-> NotLoaded]
    /\ products = loadProducts
    /\ cartItems = <<>>
    /\ placing = <<>>
    /\ shopLast = NoHandler

\* updateShippingStatus(orderId, "processing")
ProcessOrder ==
    \E orderId \in OrderIds, adminEmail \in Actors :
        /\ updateShippingStatus(orderId, SHIPPING_STATUSES.PROCESSING, adminEmail)
        /\ UNCHANGED <<shopVars, writers, eventLimit>>

RevivalNext ==
    \/ AddItem
    \/ PlaceOrderBegin
    \/ HandlePlaceOrder
    \/ HandleCancelOrder
    \/ ConfirmOrder
    \/ ProcessOrder

RevivalSpec == RevivalInit /\ [][RevivalNext]_vars

\* The two pages that place orders, over one cart: the customer may open the
\* Checkout page while the handler of the Cart page awaits, and the other way
\* round.
Pages == {"Cart", "Checkout"}

PlaceOrderOnPage ==
    \E page \in Pages :
        /\ placeOrderBegin(page)
        /\ UNCHANGED <<writers, eventLimit>>

CheckoutNext ==
    \/ AddItem
    \/ PlaceOrderOnPage
    \/ HandlePlaceOrder

CheckoutSpec == Init /\ [][CheckoutNext]_vars

\* Two tabs on one list.  Each localStorage call is a step of its own: a tab
\* reads the list (loadOrders), and later maps over what it has read and
\* writes the result (saveOrders); the other tab may run in between.

\* const orders = loadOrders(): the list the tab works on
heldOrders(w) == writers[w].orders

\* the first statement of confirmOrder and cancelOrder
writerLoads(w) ==
    /\ writers[w].pc = "idle"
    /\ writers' = [writers EXCEPT ![w] = [NotLoaded EXCEPT !.pc = "loaded",
                                                            !.orders = loadOrders]]
    /\ UNCHANGED <<storage, storedAs, clock, nextId, last, prevStorage, result>>

\* the tab has returned; a save makes the list the other tab holds stale
writerDone(w, saved) ==
    writers' = [v \in Writers |->
                  IF v = w
                  THEN [writers[w] EXCEPT !.pc = "done", !.result = result']
                  ELSE IF saved /\ writers[v].pc = "loaded"
                       THEN [writers[v] EXCEPT !.stale = TRUE]
                       ELSE writers[v]]

\* the ids of the orders a tab shows
HeldIds(w) == {writers[w].orders[i].id : i \in 1..Len(writers[w].orders)}

WriterLoads ==
    \E w \in Writers :
        /\ writerLoads(w)
        /\ UNCHANGED <<shopVars, eventLimit>>

WriterConfirms ==
    \E w \in Writers :
    \E orderId \in HeldIds(w), adminEmail \in Actors :
        /\ writers[w].pc = "loaded"
        /\ confirmOrderWith(heldOrders(w), orderId, adminEmail)
        /\ writerDone(w, TRUE)
        /\ UNCHANGED <<shopVars, eventLimit>>

WriterCancels ==
    \E w \in Writers :
    \E orderId \in HeldIds(w), userEmail \in CancelEmails :
        /\ writers[w].pc = "loaded"
        /\ cancelOrderWith(heldOrders(w), orderId, userEmail)
        /\ writerDone(w, result' # NoOrder)
        /\ UNCHANGED <<shopVars, eventLimit>>

\* the clock stands still: the interleaving does not depend on the time
RaceNext ==
    \/ CreateOrder
    \/ WriterLoads
    \/ WriterConfirms
    \/ WriterCancels

RaceSpec == Init /\ [][RaceNext]_vars

----------------------------------------------------------------------------
(* Properties.  prevStorage, last and result record the most recent call,   *)
(* so a property of one call is a predicate on the state it leaves behind.  *)

LifecycleOps == {"confirmOrder", "updateShippingStatus", "cancelOrder"}

\* the order the last call named, as it was persisted before the call
TargetBefore == {o \in Range(prevStorage) : o.id = last.orderId}

\* the cancel precondition as the specification words it
CancelPrecondition(order) ==
    /\ order.status # "cancelled"
    /\ order.shipping_status \notin {"shipped", "delivered", "cancelled"}

\* C1: after any sequence of createOrder, confirmOrder, updateShippingStatus
\* and cancelOrder, every stored order whose shipping_status is Cancelled has
\* status Cancelled.
C1_ShippingCancelledImpliesCancelled ==
    \A o \in Range(storage) :
        o.shipping_status = "cancelled" => o.status = "cancelled"

\* C2: the only changes of an order's status are Pending->Confirmed,
\* Pending->Cancelled and Confirmed->Cancelled; status never leaves Cancelled
\* and never returns to Pending.
C2_OnlyForwardStatusChanges ==
    \A p \in Range(prevStorage), o \in Range(storage) :
        p.id = o.id =>
            \/ o.status = p.status
            \/ p.status = "pending" /\ o.status \in {"confirmed", "cancelled"}
            \/ p.status = "confirmed" /\ o.status = "cancelled"

\* C3: once an order's status is Cancelled, no lifecycle operation changes any
\* of its fields: shipping_status, confirmed_at, updated_at and timeline stay
\* as they were.
C3_CancelledOrderFrozen ==
    last.op \in LifecycleOps =>
        \A p \in Range(prevStorage) :
            p.status = "cancelled" => p \in Range(storage)

\* C4: confirmOrder on an order whose status is Cancelled returns null and
\* leaves the order unchanged.
C4_ConfirmCancelledRejected ==
    last.op = "confirmOrder" =>
        \A p \in TargetBefore :
            p.status = "cancelled" => result = NoOrder /\ p \in Range(storage)

\* C5 as stated: cancelOrder on a stored order succeeds if and only if the
\* order passes the cancel precondition.
C5_CancelIffCancellable ==
    last.op = "cancelOrder" =>
        \A p \in TargetBefore : (result # NoOrder) <=> CancelPrecondition(p)

\* C5 as amended: cancelOrder on a stored order succeeds if and only if the
\* order passes the cancel precondition and the caller's e-mail is empty or,
\* trimmed and lower-cased, the order's own; on success status and
\* shipping_status are both Cancelled and the updated order is persisted and
\* returned.
C5_CancelIffCancellableAndOwned ==
    last.op = "cancelOrder" =>
        \A p \in TargetBefore :
            /\ (result # NoOrder) <=>
                  /\ CancelPrecondition(p)
                  /\ normalizeEmail(last.email) \in {<<>>, p.user_email}
            /\ result # NoOrder =>
                  /\ result[1].id = p.id
                  /\ result[1].status = "cancelled"
                  /\ result[1].shipping_status = "cancelled"
                  /\ result[1] \in Range(storage)

C5_Witness ==
    /\ last.op = "cancelOrder"
    /\ last.email = <<"A">>
    /\ result # NoOrder
    /\ \E p \in TargetBefore : p.status = "confirmed" /\ p.shipping_status = "processing"

\* C6: cancelOrder on an order that fails the cancel precondition returns null
\* and leaves the persisted order unchanged, its timeline length and
\* updated_at included.
C6_FailedCancelChangesNothing ==
    last.op = "cancelOrder" =>
        \A p \in TargetBefore :
            ~CancelPrecondition(p) =>
                /\ result = NoOrder
                /\ p \in Range(storage)
                /\ storage = prevStorage

C6_Witness ==
    /\ last.op = "cancelOrder"
    /\ result = NoOrder
    /\ \E p \in TargetBefore : p.shipping_status = "shipped" /\ p.status # "cancelled"

\* C7: updateShippingStatus with a next status equal to the order's current
\* shipping_status returns null, appends no timeline entry and changes no
\* field of the order.
C7_SameShippingStatusIsNoOp ==
    last.op = "updateShippingStatus" =>
        \A p \in TargetBefore :
            last.shippingStatus = p.shipping_status =>
                /\ result = NoOrder
                /\ p \in Range(storage)
                /\ storage = prevStorage

C7_Witness ==
    /\ last.op = "updateShippingStatus"
    /\ result = NoOrder
    /\ \E p \in TargetBefore :
          last.shippingStatus = p.shipping_status /\ p.shipping_status = "processing"

\* C8: confirmOrder, updateShippingStatus and cancelOrder given an id that
\* matches no stored order return null and leave every stored order unchanged.
C8_UnknownIdChangesNothing ==
    (last.op \in LifecycleOps /\ TargetBefore = {}) =>
        result = NoOrder /\ storage = prevStorage

C8_Witness ==
    /\ last.op = "updateShippingStatus"
    /\ last.shippingStatus = "shipped"
    /\ TargetBefore = {}
    /\ Len(prevStorage) = 2
    /\ result = NoOrder

\* C9: createOrder with autoConfirm=false yields a persisted order with status
\* Pending, shipping_status AwaitingConfirmation, confirmed_at null and a
\* timeline of length 1; with autoConfirm=true it yields status Confirmed,
\* shipping_status Processing, confirmed_at set and a timeline of length 2
\* (placed, then auto-confirmed).
C9_CreatedOrderShape ==
    last.op = "createOrder" =>
        /\ result # NoOrder
        /\ result[1] \in Range(storage)
        /\ result[1].id = last.orderId
        /\ result[1].timeline[1].message = "Order placed by customer"
        /\ ~last.autoConfirm =>
              /\ result[1].status = "pending"
              /\ result[1].shipping_status = "awaiting_confirmation"
              /\ result[1].confirmed_at = Null
              /\ Len(result[1].timeline) = 1
        /\ last.autoConfirm =>
              /\ result[1].status = "confirmed"
              /\ result[1].shipping_status = "processing"
              /\ result[1].confirmed_at # Null
              /\ Len(result[1].timeline) = 2
              /\ result[1].timeline[2].message = "Order auto-confirmed by system"

C9_Witness ==
    /\ last.op = "createOrder"
    /\ last.autoConfirm
    /\ Len(storage) = 2
    /\ \E o \in Range(storage) : o.status = "pending"

\* C10: confirmOrder on a Pending order whose shipping_status is
\* AwaitingConfirmation yields status Confirmed, shipping_status Processing,
\* confirmed_at set and exactly one more timeline entry; when shipping_status
\* is anything other than AwaitingConfirmation, confirm leaves it unchanged.
C10_ConfirmAdvancesAwaitingOnly ==
    last.op = "confirmOrder" =>
        \A p \in TargetBefore :
            /\ (p.status = "pending" /\ p.shipping_status = "awaiting_confirmation") =>
                  /\ result # NoOrder
                  /\ result[1] \in Range(storage)
                  /\ result[1].id = p.id
                  /\ result[1].status = "confirmed"
                  /\ result[1].shipping_status = "processing"
                  /\ result[1].confirmed_at # Null
                  /\ Len(result[1].timeline) = Len(p.timeline) + 1
            /\ p.shipping_status # "awaiting_confirmation" =>
                  \A o \in Range(storage) :
                      o.id = p.id => o.shipping_status = p.shipping_status

C10_Witness ==
    /\ last.op = "confirmOrder"
    /\ result # NoOrder
    /\ \E p \in TargetBefore : p.status = "pending" /\ p.shipping_status = "awaiting_confirmation"

\* s is an initial segment of t
IsPrefix(s, t) == Len(s) <= Len(t) /\ SubSeq(t, 1, Len(s)) = s

\* C11: updateShippingStatus with a recognized next status different from the
\* order's current shipping_status sets shipping_status to it and appends one
\* timeline entry; it sets status to Cancelled when the next status is
\* Cancelled and otherwise leaves status as it was.
C11_ShippingUpdateSetsStatus ==
    last.op = "updateShippingStatus" =>
        \A p \in TargetBefore :
            (/\ last.shippingStatus \in {"awaiting_confirmation", "processing",
                                         "shipped", "delivered", "cancelled"}
             /\ last.shippingStatus # p.shipping_status) =>
                /\ result # NoOrder
                /\ result[1] \in Range(storage)
                /\ result[1].id = p.id
                /\ result[1].shipping_status = last.shippingStatus
                /\ Len(result[1].timeline) = Len(p.timeline) + 1
                /\ result[1].status =
                      IF last.shippingStatus = "cancelled" THEN "cancelled" ELSE p.status

C11_Witness ==
    /\ last.op = "updateShippingStatus"
    /\ last.shippingStatus = "cancelled"
    /\ result # NoOrder
    /\ result[1].status = "cancelled"
    /\ \E p \in TargetBefore : p.status = "confirmed" /\ p.shipping_status = "processing"

\* C12: every operation leaves each order's previous timeline as a prefix of
\* its new timeline, and the first entry of every timeline is the placement
\* entry.
C12_TimelineAppendOnly ==
    /\ \A p \in Range(prevStorage), o \in Range(storage) :
          o.id = p.id => IsPrefix(p.timeline, o.timeline)
    /\ \A o \in Range(storage) :
          /\ Len(o.timeline) >= 1
          /\ o.timeline[1].message = "Order placed by customer"

C12_Witness ==
    /\ last.op = "cancelOrder"
    /\ result # NoOrder
    /\ Len(result[1].timeline) = 3
    /\ \E p \in TargetBefore : Len(p.timeline) = 2 /\ IsPrefix(p.timeline, result[1].timeline)

\* C13: a confirmOrder, updateShippingStatus or cancelOrder that succeeds grows
\* the timeline of its order by exactly one entry, one that fails grows it by
\* none, and no order changes without its timeline growing by one.
C13_OneEntryPerMutation ==
    last.op \in LifecycleOps =>
        \A p \in Range(prevStorage), o \in Range(storage) :
            o.id = p.id =>
                /\ (result # NoOrder /\ result[1].id = p.id) =>
                      Len(o.timeline) = Len(p.timeline) + 1
                /\ (result = NoOrder \/ result[1].id # p.id) =>
                      Len(o.timeline) = Len(p.timeline)
                /\ o # p => Len(o.timeline) = Len(p.timeline) + 1

C13_Witness ==
    /\ last.op = "confirmOrder"
    /\ result # NoOrder
    /\ Len(result[1].timeline) = 3
    /\ \E p \in TargetBefore : p.status = "confirmed" /\ Len(p.timeline) = 2

\* C14: an order's confirmed_at, once non-null, is the same after every later
\* operation; confirming a confirmed or auto-confirmed order keeps it.
C14_ConfirmedAtSetOnce ==
    \A p \in Range(prevStorage), o \in Range(storage) :
        (o.id = p.id /\ p.confirmed_at # Null) => o.confirmed_at = p.confirmed_at

C14_Witness ==
    /\ last.op = "confirmOrder"
    /\ result # NoOrder
    /\ \E p \in TargetBefore :
          /\ p.confirmed_at # Null
          /\ result[1].updated_at > p.confirmed_at
          /\ result[1].confirmed_at = p.confirmed_at

----------------------------------------------------------------------------
(* Properties of the storefront.  A property of one handler is stated on    *)
(* the step the handler takes: the unprimed cart, catalog and order list    *)
(* are those the handler found, the primed ones those it left.              *)

InCatalog(catalog, id) == \E i \in 1..Len(catalog) : catalog[i].id = id

\* the stored stock of a product
StockRecord(catalog, id) ==
    catalog[CHOOSE i \in 1..Len(catalog) : catalog[i].id = id].stock

\* the stock a catalog holds for a product id: none for a product it lacks
StockOf(catalog, id) ==
    IF InCatalog(catalog, id) THEN StockRecord(catalog, id).floor ELSE 0

Authenticated(auth) == auth.isAuthenticated /\ auth.email # <<>>

\* the cart lines that ask for more than the catalog holds
Offending(lines, catalog) ==
    SelectSeq(lines, LAMBDA line : line.quantity > StockOf(catalog, line.id))

\* the step in which handlePlaceOrder, resumed with the answer of
\* resolveAuthState, runs to its end
PlaceOrderStep ==
    /\ placing # <<>>
    /\ placing' = Tail(placing)
    /\ shopLast'.handler = "handlePlaceOrder"

SeedIds == {seedProducts[i].id : i \in 1..Len(seedProducts)}

\* C15: PlaceOrder by a signed-in customer with a cart line whose quantity
\* exceeds the current catalog stock of its product fails with the
\* insufficient-stock error naming the offending products, creates no order,
\* changes no stock and leaves the cart as it was.
C15_InsufficientStockRejected ==
    [][(/\ PlaceOrderStep
        /\ Authenticated(shopLast'.auth)
        /\ Offending(cartItems, products) # <<>>) =>
            /\ shopLast'.outcome = "stock"
            /\ shopLast'.names =
                  [i \in 1..Len(Offending(cartItems, products)) |->
                      Offending(cartItems, products)[i].id]
            /\ storage' = storage
            /\ products' = products
            /\ cartItems' = cartItems]_vars

\* C16: PlaceOrder without an authenticated customer identity fails with the
\* sign-in error, not the insufficient-stock error, also when stock is
\* insufficient, and creates no order, changes no stock and leaves the cart.
C16_UnauthenticatedRejected ==
    [][(PlaceOrderStep /\ ~Authenticated(shopLast'.auth)) =>
            /\ shopLast'.outcome = "signin"
            /\ shopLast'.outcome # "stock"
            /\ storage' = storage
            /\ products' = products
            /\ cartItems' = cartItems]_vars

C16_Witness ==
    /\ shopLast.handler = "handlePlaceOrder"
    /\ ~shopLast.auth.isAuthenticated
    /\ shopLast.outcome = "signin"
    /\ shopLast.names # <<>>
    /\ Offending(cartItems, products) # <<>>
    /\ storage = <<>>

\* C17: a PlaceOrder that succeeds (signed-in customer, every line quantity
\* within the current stock) creates exactly one order holding one line item
\* per cart line with the same product id and quantity, reduces the stock of
\* each ordered product by exactly that line's quantity and empties the cart.
C17_PlacedOrderTakesStock ==
    [][(/\ PlaceOrderStep
        /\ shopLast'.outcome = "placed"
        /\ Authenticated(shopLast'.auth)
        /\ Offending(cartItems, products) = <<>>) =>
            /\ Len(storage') = Len(storage) + 1
            /\ result' # NoOrder
            /\ result'[1] \in Range(storage')
            /\ Len(result'[1].items) = Len(cartItems)
            /\ \A i \in 1..Len(cartItems) :
                  /\ result'[1].items[i].product_id = cartItems[i].id
                  /\ result'[1].items[i].quantity = Num(cartItems[i].quantity)
                  /\ StockOf(products', cartItems[i].id) =
                        StockOf(products, cartItems[i].id) - cartItems[i].quantity
            /\ cartItems' = <<>>]_vars

\* C18: every change of an order's status to Cancelled, by the customer's
\* cancel or by a shipping-status update to Cancelled, comes with the
\* restoration of inventory: the stock of each line item's product goes up by
\* that line's quantity.
C18_CancellationRestoresStock ==
    [][\A p \in Range(storage), o \in Range(storage') :
          (o.id = p.id /\ p.status # "cancelled" /\ o.status = "cancelled") =>
              \A i \in 1..Len(p.items) :
                  InCatalog(products, p.items[i].product_id) =>
                      StockOf(products', p.items[i].product_id) =
                          StockOf(products, p.items[i].product_id) + p.items[i].quantity.floor]_vars

\* C19: after any sequence of stock edits, updateProduct and adjustStock
\* calls, with any value or delta, every product's stock is an integer >= 0.
C19_StockNonNegativeInteger ==
    \A i \in 1..Len(products) :
        /\ products[i].stock.finite
        /\ ~products[i].stock.half
        /\ products[i].stock.floor >= 0

C19_Witness ==
    /\ shopLast.handler = "adjustStock"
    /\ shopLast.value = Half(-1)
    /\ InCatalog(products, shopLast.productId)
    /\ StockOf(products, shopLast.productId) = 0
    /\ \E i \in 1..Len(products) : products[i].stock.floor = 30

\* C20 as stated: setting a product's stock to v stores max(0, floor(v)); a
\* negative value stores 0 and a value that is no finite number stores 0.
C20_SetStockClamps ==
    [][\A id \in SeedIds :
          (/\ shopLast'.handler \in {"handleStockSave", "updateProduct"}
           /\ shopLast'.productId = id
           /\ InCatalog(products, id)) =>
              StockRecord(products', id) =
                  Num(IF shopLast'.value.finite
                      THEN Max(0, shopLast'.value.floor) ELSE 0)]_vars

\* C20 as amended: a finite value v >= 0 is stored as floor(v); a negative or
\* non-finite value is ignored by the admin's stock save, which leaves the
\* catalog as it was, and is replaced by updateProduct with the default stock
\* of the product's category (30 Accessories, 12 Lenses, 8 otherwise).
C20_SetStockFloorsOrRefuses ==
    [][\A id \in SeedIds :
          (/\ shopLast'.handler \in {"handleStockSave", "updateProduct"}
           /\ shopLast'.productId = id
           /\ InCatalog(products, id)) =>
              IF shopLast'.value.finite /\ shopLast'.value.floor >= 0
              THEN StockRecord(products', id) = Num(shopLast'.value.floor)
              ELSE IF shopLast'.handler = "handleStockSave"
                   THEN products' = products
                   ELSE \E i \in 1..Len(products) :
                          /\ products[i].id = id
                          /\ StockRecord(products', id) =
                                Num(CASE products[i].category = "Accessories" -> 30
                                      [] products[i].category = "Lenses" -> 12
                                      [] OTHER -> 8)]_vars

C20_Witness ==
    /\ shopLast.handler = "handleStockSave"
    /\ shopLast.value = Half(-1)
    /\ InCatalog(products, shopLast.productId)
    /\ StockRecord(products, shopLast.productId) = Num(3)

\* C21: the stock read for a product id the catalog lacks is 0, on the
\* product page and when handlePlaceOrder reads the stock of a cart line whose
\* product is no longer in the catalog of its render.
C21_AbsentProductReadsZero ==
    /\ \A id \in SeedIds :
          ~InCatalog(products, id) => getStockCount(findProduct(products, id)) = 0
    /\ \A k \in 1..Len(placing) : \A i \in 1..Len(placing[k].items) :
          ~InCatalog(placing[k].products, placing[k].items[i].id) =>
              getCurrentStock(placing[k].items[i], placing[k].products) = 0

\* the quantity addItem takes a request for: at least 1, 1 for no number
Requested(qty) == IF qty.finite THEN Max(1, qty.floor) ELSE 1

\* C22: after any sequence of addItem, updateQuantity, removeItem and
\* clearCart calls every cart line has 1 <= quantity <= its stock snapshot,
\* and addItem on a line the cart already has leaves that line with the
\* summed quantity, capped at the product's current stock.
C22_CartQuantityWithinStock ==
    /\ [](\A i \in 1..Len(cartItems) :
            /\ cartItems[i].quantity >= 1
            /\ cartItems[i].quantity <= cartItems[i].stock.floor)
    /\ [][(shopLast'.handler = "addItem" /\ shopLast'.outcome = "added") =>
            \A i \in 1..Len(cartItems) :
                cartItems[i].id = shopLast'.productId =>
                    /\ Len(cartItems') = Len(cartItems)
                    /\ cartItems'[i].id = cartItems[i].id
                    /\ cartItems'[i].quantity =
                          Min(cartItems[i].quantity + Requested(shopLast'.value),
                              StockOf(products, cartItems[i].id))]_vars

C22_Witness ==
    /\ shopLast.handler = "addItem"
    /\ shopLast.outcome = "added"
    /\ shopLast.value = Half(1)
    /\ Len(cartItems) = 2
    /\ \E i \in 1..Len(cartItems) :
          /\ cartItems[i].id = shopLast.productId
          /\ cartItems[i].quantity = 2
          /\ cartItems[i].stock = Num(2)

\* C23: addItem for a product whose stock is zero answers false and leaves
\* the cart as it was, whether or not the cart has a line for that product.
C23_ZeroStockAddRejected ==
    [][(/\ shopLast'.handler = "addItem"
        /\ InCatalog(products, shopLast'.productId)
        /\ StockOf(products, shopLast'.productId) = 0) =>
            /\ shopLast'.outcome # "added"
            /\ cartItems' = cartItems]_vars

C23_Witness ==
    /\ shopLast.handler = "addItem"
    /\ shopLast.outcome = "unavailable"
    /\ StockOf(products, shopLast.productId) = 0
    /\ \E i \in 1..Len(cartItems) : cartItems[i].id = shopLast.productId
    /\ \E i \in 1..Len(cartItems) : cartItems[i].id # shopLast.productId

----------------------------------------------------------------------------
(* Properties of the repository *)

\* the most recent call saved the list: the item is what saveOrders wrote
Saved ==
    \/ last.op \in {"createOrder", "confirmOrder", "updateShippingStatus"}
    \/ last.op = "cancelOrder" /\ result # NoOrder

\* C24: every order loadOrders returns is left as it is by normalizeOrder,
\* saving what loadOrders returned persists exactly that list, and a call
\* that only saves what it loaded (confirmOrder or updateShippingStatus for an
\* id no order has) leaves an item the library wrote field for field unchanged.
C24_SaveLoadLossless ==
    /\ [](\A i \in 1..Len(loadOrders) : normalizeOrder(loadOrders[i]) = loadOrders[i])
    /\ [](saveOrders(loadOrders) = loadOrders)
    /\ [][(/\ Saved
            /\ last'.op \in {"confirmOrder", "updateShippingStatus"}
            /\ result' = NoOrder) => storage' = storage]_vars

C24_Witness ==
    /\ last.op = "confirmOrder"
    /\ result = NoOrder
    /\ storedAs = "array"
    /\ storage = prevStorage
    /\ Len(storage) = 3
    /\ \E i \in 1..Len(storage) : storage[i].status = "refunded"
    /\ \E i \in 1..Len(storage) : storage[i].timeline[1].message = "Order placed by customer"
                                      /\ storage[i].created_at = 3

\* the orders of a list have a status and a shipping status the engine knows
KnownEnums(orders) ==
    \A i \in 1..Len(orders) :
        /\ orders[i].status \in {"pending", "confirmed", "cancelled"}
        /\ orders[i].shipping_status \in
              {"awaiting_confirmation", "processing", "shipped", "delivered", "cancelled"}

\* C25: every order loadOrders returns, and every order saveOrders has
\* persisted, has a status in {pending, confirmed, cancelled} and one of the
\* five shipping statuses, whatever the stored record contained.
C25_EnumsNormalized ==
    /\ KnownEnums(loadOrders)
    /\ Saved => KnownEnums(storage)

\* a number that is >= 0, and one that is >= 1
AtLeast(x, n) == x.finite /\ x.floor >= n

\* the product ids of the line items that have one
KeptIds(items) ==
    LET ids == [k \in 1..Len(items) |-> items[k].product_id]
    IN  SelectSeq(ids, LAMBDA id : id # "")

ClampedItems(orders) ==
    \A i \in 1..Len(orders) :
        /\ AtLeast(orders[i].subtotal, 0)
        /\ \A k \in 1..Len(orders[i].items) :
              /\ AtLeast(orders[i].items[k].unit_price, 0)
              /\ AtLeast(orders[i].items[k].quantity, 1)
              /\ orders[i].items[k].product_id # ""

\* C26: every order loadOrders returns or saveOrders has persisted has a
\* subtotal >= 0 and line items with unit_price >= 0, quantity >= 1 and a
\* product id; of a stored record's line items exactly those with a product
\* id are kept, in their order.
C26_ItemsClampedNotRejected ==
    /\ ClampedItems(loadOrders)
    /\ Saved => ClampedItems(storage)
    /\ storedAs = "array" =>
          \A r \in Range(storage) :
              r.id # Null =>
                  \E i \in 1..Len(loadOrders) :
                      /\ loadOrders[i].id = r.id
                      /\ [k \in 1..Len(loadOrders[i].items) |->
                            loadOrders[i].items[k].product_id] = KeptIds(r.items)

C26_Witness ==
    /\ last.op = "loadOrders"
    /\ storedAs = "array"
    /\ RawEdited \in Range(storage)
    /\ \E i \in 1..Len(result) :
          /\ result[i].id = RawEdited.id
          /\ result[i].subtotal = Num(0)
          /\ result[i].items =
                <<[product_id |-> "p1", unit_price |-> Num(0), quantity |-> Num(1)]>>

\* a list is ordered by created_at, newest first
NewestFirst(orders) ==
    \A i \in 1..Len(orders), j \in 1..Len(orders) :
        i < j => orders[i].created_at >= orders[j].created_at

\* C28: the list loadOrders returns and the list saveOrders has persisted are
\* ordered by created_at, newest first, and the order createOrder has just
\* created stands first.
C28_NewestFirst ==
    /\ NewestFirst(loadOrders)
    /\ Saved => NewestFirst(storage)
    /\ last.op = "createOrder" => storage[1] = result[1]

C28_Witness ==
    /\ last.op = "createOrder"
    /\ Len(storage) = 3
    /\ storage[1] = result[1]
    /\ storage[2].created_at = 2
    /\ storage[3].created_at = 1
    /\ prevStorage = <<RawKept, RawEdited>>

\* C30: loadOrders returns the empty list whenever the item is missing,
\* unparsable or no array.
C30_LoadFailsSoft ==
    (last.op = "loadOrders" /\ storedAs # "array") => result = <<>>

C30_Witness ==
    /\ last.op = "loadOrders"
    /\ storedAs = "notArray"
    /\ storage = DamagedList
    /\ result = <<>>

----------------------------------------------------------------------------
(* Properties of the intake *)

\* unit_price x quantity, summed over the first n line items
RECURSIVE LineTotal(_, _)
LineTotal(items, n) ==
    IF n = 0 THEN 0
    ELSE LineTotal(items, n - 1) + items[n].unit_price.floor * items[n].quantity.floor

\* C27: an order created without a subtotal has the sum of unit_price x
\* quantity over its line items as subtotal; a subtotal that was supplied is
\* stored instead, floored and not below 0.
C27_SubtotalComputedOrSupplied ==
    (last.op = "createOrder" /\ shopLast.handler = "createOrder") =>
        /\ result # NoOrder
        /\ result[1] \in Range(storage)
        /\ ~result[1].subtotal.half
        /\ result[1].subtotal.finite
        /\ result[1].subtotal.floor =
              IF ~shopLast.value.finite
              THEN LineTotal(result[1].items, Len(result[1].items))
              ELSE Max(0, shopLast.value.floor)

C27_Witness ==
    /\ last.op = "createOrder"
    /\ shopLast.handler = "createOrder"
    /\ shopLast.value = NotFinite
    /\ result[1].items =
          <<[product_id |-> "p1", unit_price |-> Num(100), quantity |-> Num(2)],
            [product_id |-> "p2", unit_price |-> Num(50), quantity |-> Num(1)]>>
    /\ result[1].subtotal = Num(250)
    /\ result[1].status = "pending"
    /\ Len(result[1].timeline) = 1

\* the e-mail a query is compared by: trimmed and lower-cased
Wanted(email) ==
    CASE email = <<" ", "A">> -> <<"a">>
      [] email = <<"b">> -> <<"b">>
      [] OTHER -> <<>>

\* C29: getOrdersForUser(email) returns exactly the stored orders whose
\* user_email is the trimmed, lower-cased email, in their stored order, and
\* the empty list for an empty or blank email, also when orders with an empty
\* user_email are stored.
C29_OrdersOfCustomer ==
    last.op = "getOrdersForUser" =>
        result = IF Wanted(last.email) = <<>> THEN <<>>
                 ELSE SelectSeq(storage, LAMBDA o : o.user_email = Wanted(last.email))

C29_Witness ==
    /\ last.op = "getOrdersForUser"
    /\ last.email = <<" ">>
    /\ result = <<>>
    /\ Len(storage) = 2
    /\ \E i \in 1..Len(storage) : storage[i].user_email = <<>>
    /\ \E i \in 1..Len(storage) : storage[i].user_email = <<"a">>

----------------------------------------------------------------------------
(* Properties of the metrics *)

\* the orders getRevenueMetrics was given: the snapshot, or the loaded list
Measured ==
    IF shopLast.outcome = "loads" THEN loadOrders
    ELSE SelectSeq(loadOrders, LAMBDA o : o.id \in Range(shopLast.names))

\* the subtotals of the first n orders of a list that are confirmed, summed
RECURSIVE ConfirmedTotal(_, _)
ConfirmedTotal(orders, n) ==
    IF n = 0 THEN 0
    ELSE ConfirmedTotal(orders, n - 1)
         + (IF orders[n].status = "confirmed" THEN orders[n].subtotal.floor ELSE 0)

\* C31: getRevenueMetrics returns as totalRevenue the sum of the subtotals of
\* exactly the confirmed orders of the list it was given and as pendingCount
\* the number of its pending orders, and the call leaves the persisted item
\* as it was.
C31_RevenueOfConfirmedOrders ==
    /\ [](last.op = "getRevenueMetrics" =>
            /\ result[1].totalRevenue = ConfirmedTotal(Measured, Len(Measured))
            /\ result[1].pendingCount =
                  Cardinality({i \in 1..Len(Measured) : Measured[i].status = "pending"}))
    /\ [][last'.op = "getRevenueMetrics" =>
            storage' = storage /\ storedAs' = storedAs]_vars

C31_Witness ==
    /\ last.op = "getRevenueMetrics"
    /\ shopLast.outcome = "snapshot"
    /\ Len(shopLast.names) = 1
    /\ Len(storage) = 3
    /\ result[1].totalRevenue = 250
    /\ result[1].pendingCount = 0
    /\ \E i \in 1..Len(storage) : storage[i].status = "pending"

----------------------------------------------------------------------------
(* Properties of the list as a whole *)

\* the ids of the list as the last operation found it
PrevIds == {prevStorage[i].id : i \in 1..Len(prevStorage)}

\* C32: createOrder, confirmOrder, updateShippingStatus and cancelOrder remove
\* no order: every id persisted before the operation is persisted after it,
\* and createOrder adds exactly one id and one record.
C32_NoOrderRemoved ==
    /\ PrevIds \subseteq StoredIds
    /\ Len(storage) >= Len(prevStorage)
    /\ last.op = "createOrder" =>
          /\ Cardinality(StoredIds) = Cardinality(PrevIds) + 1
          /\ Len(storage) = Len(prevStorage) + 1
    /\ last.op \in LifecycleOps =>
          /\ StoredIds = PrevIds
          /\ Len(storage) = Len(prevStorage)

C32_Witness ==
    /\ last.op = "cancelOrder"
    /\ result # NoOrder
    /\ Len(storage) = 2
    /\ PrevIds = StoredIds
    /\ \E i \in 1..2 : storage[i].status = "pending"

\* C33: updateShippingStatus with a status that is not one of the five
\* shipping statuses is not rejected: an order whose shipping_status is not
\* AwaitingConfirmation gets that status and one more timeline entry, and for
\* an order that already awaits confirmation the call returns null and
\* changes nothing.
C33_UnknownShippingStatusCoerced ==
    (/\ last.op = "updateShippingStatus"
     /\ last.shippingStatus \notin {"awaiting_confirmation", "processing",
                                    "shipped", "delivered", "cancelled"}) =>
        \A p \in TargetBefore :
            /\ p.shipping_status # "awaiting_confirmation" =>
                  /\ result # NoOrder
                  /\ result[1] \in Range(storage)
                  /\ result[1].id = p.id
                  /\ result[1].shipping_status = "awaiting_confirmation"
                  /\ Len(result[1].timeline) = Len(p.timeline) + 1
                  /\ IsPrefix(p.timeline, result[1].timeline)
            /\ p.shipping_status = "awaiting_confirmation" =>
                  /\ result = NoOrder
                  /\ storage = prevStorage

C33_Witness ==
    /\ last.op = "updateShippingStatus"
    /\ last.shippingStatus = "returned"
    /\ result # NoOrder
    /\ result[1].shipping_status = "awaiting_confirmation"
    /\ \E p \in TargetBefore : p.shipping_status = "processing"

\* the tab saved its change first, and the other tab had read the list
\* before that save and saved its own change afterwards
SavedBefore(w, v) ==
    /\ w # v
    /\ writers[w].pc = "done" /\ writers[v].pc = "done"
    /\ writers[w].result # NoOrder /\ writers[v].result # NoOrder
    /\ ~writers[w].stale /\ writers[v].stale
    /\ writers[w].result[1].id # writers[v].result[1].id

\* C34: when two tabs have both read the list before either saves, and each
\* then changes a different order and saves, the list persisted after the
\* later save holds the later tab's change and not the earlier tab's: the
\* earlier tab's order is persisted as the later tab had read it, if at all.
C34_LaterSaveDiscardsEarlier ==
    \A w \in Writers, v \in Writers :
        SavedBefore(w, v) =>
            /\ writers[v].result[1] \in Range(storage)
            /\ writers[w].result[1] \notin Range(storage)
            /\ \A o \in Range(storage) :
                  o.id = writers[w].result[1].id => o \in Range(writers[v].orders)

C34_Witness ==
    /\ SavedBefore(1, 2)
    /\ writers[1].result[1].status = "confirmed"
    /\ writers[2].result[1].status = "cancelled"
    /\ Len(storage) = 2
    /\ \A o \in Range(storage) : o.status # "confirmed"

\* the customer has cancelled the order at some time
CancelledByCustomer(o) ==
    \E k \in 1..Len(o.timeline) : o.timeline[k].message = "Order cancelled by customer"

\* C35: stock is restored for an order at most once: an order that its
\* customer has cancelled can never be cancelled again, whatever confirmOrder,
\* updateShippingStatus and cancelOrder calls follow, and while nobody edits
\* the stock no product holds more than its initial stock.
C35_RestoredAtMostOnce ==
    /\ \A o \in Range(storage) : CancelledByCustomer(o) => ~canOrderBeCancelled(o)
    /\ \A id \in SeedIds : StockOf(products, id) <= StockOf(loadProducts, id)

\* the stock of a product the handler is about to order has changed since
\* the handler started
StockChangedWhileAwaiting ==
    \E i \in 1..Len(Head(placing).items) :
        StockOf(products, Head(placing).items[i].id) #
            StockOf(Head(placing).products, Head(placing).items[i].id)

\* C36: when the stock of an ordered product has changed while handlePlaceOrder
\* awaited the auth state, the stock test is made against the latest stock,
\* and a successful placement leaves each ordered product with its latest
\* stock minus the ordered quantity.
C36_StockWriteKeepsLaterChange ==
    [][(/\ PlaceOrderStep
        /\ Authenticated(shopLast'.auth)
        /\ StockChangedWhileAwaiting) =>
            /\ (shopLast'.outcome = "stock") <=>
                  (Offending(Head(placing).items, products) # <<>>)
            /\ shopLast'.outcome = "placed" =>
                  \A i \in 1..Len(Head(placing).items) :
                      StockOf(products', Head(placing).items[i].id) =
                          StockOf(products, Head(placing).items[i].id)
                              - Head(placing).items[i].quantity]_vars

\* handlePlaceOrder resumes for a request that was made while an earlier
\* request, which is still waiting, was in flight
LaterRequestStep ==
    /\ Len(placing) = 2
    /\ placing' = <<placing[1]>>
    /\ shopLast'.handler = "handlePlaceOrder"

\* C37: a PlaceOrder request made while an earlier one is still awaiting the
\* auth state creates no order and changes no stock.
C37_SecondRequestIgnored ==
    [][LaterRequestStep => storage' = storage /\ products' = products]_vars

\* C38: cancelOrder with an e-mail that is not empty and, trimmed and in lower
\* case, is not the order's user_email returns null and leaves the persisted
\* list as it was, whatever state the order is in.
C38_ForeignCancelRejected ==
    (/\ last.op = "cancelOrder"
     /\ trim(last.email) # <<>>) =>
        \A p \in TargetBefore :
            p.user_email # toLowerCase(trim(last.email)) =>
                /\ result = NoOrder
                /\ storage = prevStorage

C38_Witness ==
    /\ last.op = "cancelOrder"
    /\ last.email = <<"b", " ">>
    /\ result = NoOrder
    /\ \E p \in TargetBefore :
          /\ p.user_email = <<"a">>
          /\ p.status = "pending"
          /\ p.shipping_status = "awaiting_confirmation"

\* C39: confirmOrder, updateShippingStatus and cancelOrder on an order leave
\* its id, user_email, items, subtotal and created_at as they were, and leave
\* every other stored order as it was.
C39_LifecycleFrame ==
    last.op \in LifecycleOps =>
        /\ Len(storage) = Len(prevStorage)
        /\ \A p \in Range(prevStorage) :
              \E o \in Range(storage) :
                  /\ o.id = p.id
                  /\ o.user_email = p.user_email
                  /\ o.items = p.items
                  /\ o.subtotal = p.subtotal
                  /\ o.created_at = p.created_at
                  /\ p.id # last.orderId => o = p

C39_Witness ==
    /\ last.op = "updateShippingStatus"
    /\ result # NoOrder
    /\ Len(storage) = 2
    /\ result[1].created_at < result[1].updated_at
    /\ \E o \in Range(storage) : o.id # last.orderId /\ o \in Range(prevStorage)

\* C40: every stored order that is confirmed has a confirmed_at, and every
\* stored order that is pending has none.
C40_ConfirmedAtMatchesStatus ==
    \A o \in Range(storage) :
        /\ o.status = "confirmed" => o.confirmed_at # Null
        /\ o.status = "pending" => o.confirmed_at = Null

C40_Witness ==
    /\ last.op = "confirmOrder"
    /\ result # NoOrder
    /\ result[1].status = "confirmed"
    /\ result[1].confirmed_at # Null
    /\ \E p \in TargetBefore : p.status = "pending" /\ p.confirmed_at = Null

====
